---- MODULE Spec2Model ----
(***************************************************************************)
(* A model of sprync: the manifest diff (pkg/pack/diff.go), the tar codec  *)
(* (pkg/pack/pack.go, UnpackTar), the path gates (pkg/paths), the agent    *)
(* request handlers (cmd/spryncd/main.go) and the driver's push            *)
(* (cmd/sprync/diff.go).                                                   *)
(*                                                                         *)
(* Go strings are modelled as sequences of one-character strings, so that  *)
(* Clean, Join, Rel, HasPrefix and the byte order of sort.Strings are      *)
(* computed the way the Go library computes them.                          *)
(***************************************************************************)
EXTENDS Integers, Sequences, FiniteSets, TLC

VARIABLES
    local,          \* ComputeDiff: the source manifest (path -> entry)
    remote,         \* ComputeDiff: the target manifest
    deleteEnabled,  \* ComputeDiff: the delete flag
    result,         \* ComputeDiff: the DiffResult returned, or NoResult
    hostFs,         \* the file system of the driver's host
    spriteFs,       \* the file system of the sprite
    umask,          \* the umask of the process that extracts
    packArgs,       \* PackTar: [dir, filePaths, compress], or NoPack
    packed,         \* PackTar: [tar, count, err] as returned, or NotPacked
    archive,        \* the tar stream handed to UnpackTar, or NoArchive
    unpackArgs,     \* UnpackTar: [dir, compress]
    unpacked,       \* UnpackTar: [count, err] as returned, or NotUnpacked
    fsBefore,       \* the sprite file system before the last call or request
    trackedFiles,   \* spryncd: the scratch files to remove at exit
    request,        \* the request the agent served last, or NoRequest
    responses,      \* the responses the agent sent to it
    served,         \* the number of requests served
    running,        \* the agent has not exited
    fatalRun,       \* the fatal errors in a row the session got before this request
    pushArgs,       \* the push: [localDir, remoteDir, excludes, compress, deleteOn]
    pc,             \* the push: where localToSpritePush is
    exists,         \* the push: what the remote manifest reported
    pushErr,        \* the push: the error returned, <<>> for nil
    session,        \* the push: [remoteBin, dest] of the session and its scratch file
    manifestArgs,   \* the manifests: [dir, excludes] given to both walkers
    walked,         \* the manifests: [done, err, manifest] of pack.WalkLocal
    listed,         \* the manifests: [done, err, exists, entries] of Session.Manifest
    srcFs,          \* sprite to sprite: the file system of the source sprite
    srcSession,     \* sprite to sprite: the session with the source sprite's agent
    packer,         \* transfer: the goroutine that runs PackTar into the pipe
    upload,         \* transfer: the PUT, [body, answer]
    handler,        \* transfer: where handleTransfer is and what it sent
    wire,           \* channel: the frames the server sent that readPump has not read
    toAgent,        \* channel: the request lines written that the agent has not read
    agentProc,      \* channel: the process at the far end
    wsc,            \* channel: the WSConn, its read pump and its pipes
    calls,          \* channel: the calls of Session methods, one per caller
    mu,             \* channel: the caller that holds Session.mu, 0 for none
    sess,           \* channel: OpenSession and what was written to the channel
    walkArgs,       \* WalkLocal: [dir, excludes, cpus]
    jobs,           \* WalkLocal: the files the walk queued
    jobCh,          \* WalkLocal: the channel of files to hash
    resultCh,       \* WalkLocal: the channel of hash results
    wg,             \* WalkLocal: the count of the WaitGroup
    hashers,        \* WalkLocal: the workers, [pc, job, res] each
    hashes,         \* WalkLocal: how often each queued file was hashed
    walker,         \* WalkLocal: where the call is, its map and what it returned
    wsIn,           \* frames: the messages the peer sent that ws.Read has not returned
    wsRead,         \* frames: the messages ws.Read returned, in order
    wsOut,          \* frames: the calls that wrote and the messages each sent
    readPump,       \* frames: [pc, held] of the read pump and the bytes it is writing
    stdoutBytes,    \* frames: the bytes read from Stdout()
    stderrBytes,    \* frames: the bytes read from Stderr()
    exitCh,         \* frames: [closed, code] of exitCh and exitCode
    matcher,        \* excludes: the ExcludeMatcher, [made, patterns]
    matched         \* excludes: the last call of Match, [called, relPath, result]

diffVars == <<local, remote, deleteEnabled, result>>

tarVars == <<hostFs, spriteFs, umask, packArgs, packed, archive, unpackArgs,
             unpacked, fsBefore>>

\* The agent on the sprite and the driver's session with it
agentVars == <<trackedFiles, request, responses, served, running, fatalRun>>

\* localToSpritePush, which also sets the manifests and the diff
pushVars == <<pushArgs, pc, exists, pushErr, session>>

\* The two walkers on one tree
manifestVars == <<manifestArgs, walked, listed>>

\* The source sprite of a sprite-to-sprite push
peerVars == <<srcFs, srcSession>>

\* The pipe between packing and uploading in handleTransfer
xferVars == <<packer, upload, handler>>

\* The session over the WebSocket
connVars == <<wire, toAgent, agentProc, wsc, calls, mu, sess>>

\* The worker pool of pack.WalkLocal
walkVars == <<walkArgs, jobs, jobCh, resultCh, wg, hashers, hashes, walker>>

\* The frames of one WSConn, byte by byte
frameVars == <<wsIn, wsRead, wsOut, readPump, stdoutBytes, stderrBytes, exitCh>>

\* One ExcludeMatcher and the paths put to it
matchVars == <<matcher, matched>>

vars == <<diffVars, tarVars, agentVars, pushVars, manifestVars, peerVars, xferVars,
          connVars, walkVars, frameVars, matchVars>>

-----------------------------------------------------------------------------
(* Bytes and strings *)

\* The byte 0x00 (a TLA+ string cannot hold it).
NUL == "NUL"

\* The byte value of a character: the order sort.Strings and < use.
Code(c) ==
    CASE c = NUL -> 0
      [] c = "*" -> 42
      [] c = "-" -> 45
      [] c = "." -> 46
      [] c = "/" -> 47
      [] c = "?" -> 63
      [] c = "a" -> 97
      [] c = "b" -> 98
      [] c = "c" -> 99
      [] c = "d" -> 100
      [] c = "e" -> 101
      [] c = "f" -> 102
      [] c = "l" -> 108
      [] c = "m" -> 109
      [] c = "o" -> 111
      [] c = "p" -> 112
      [] c = "r" -> 114
      [] c = "t" -> 116
      [] c = "x" -> 120

\* Go's string comparison s < t: bytewise lexicographic.
RECURSIVE StrLess(_, _)
StrLess(s, t) ==
    IF t = <<>> THEN FALSE
    ELSE IF s = <<>> THEN TRUE
    ELSE IF Code(Head(s)) # Code(Head(t)) THEN Code(Head(s)) < Code(Head(t))
    ELSE StrLess(Tail(s), Tail(t))

\* strings.HasPrefix
HasPrefix(s, p) ==
    /\ Len(p) <= Len(s)
    /\ SubSeq(s, 1, Len(p)) = p

\* strings.Contains
Contains(s, sub) ==
    \E i \in 0..(Len(s) - Len(sub)) : SubSeq(s, i + 1, i + Len(sub)) = sub

\* strings.ContainsRune(p, 0)
ContainsNul(s) ==
    \E i \in 1..Len(s) : s[i] = NUL

\* strings.Split(s, "/"): never empty, Split("") = <<"">>.
RECURSIVE Split(_)
Split(s) ==
    IF \A i \in 1..Len(s) : s[i] # "/" THEN <<s>>
    ELSE LET i == CHOOSE k \in 1..Len(s) :
                     /\ s[k] = "/"
                     /\ \A j \in 1..(k - 1) : s[j] # "/"
         IN  <<SubSeq(s, 1, i - 1)>> \o Split(SubSeq(s, i + 1, Len(s)))

\* strings.Join(segs, "/")
RECURSIVE JoinSegs(_)
JoinSegs(segs) ==
    IF segs = <<>> THEN <<>>
    ELSE IF Len(segs) = 1 THEN segs[1]
    ELSE segs[1] \o <<"/">> \o JoinSegs(Tail(segs))

Range(seq) ==
    {seq[i] : i \in 1..Len(seq)}

Dot == <<".">>
DotDot == <<".", ".">>
Slash == <<"/">>

-----------------------------------------------------------------------------
(* path.Clean, filepath.Join, filepath.Dir, filepath.Rel (Unix) *)

\* The element loop of Clean: out is the stack of elements kept so far.
RECURSIVE CleanSegs(_, _, _)
CleanSegs(segs, rooted, out) ==
    IF segs = <<>> THEN out
    ELSE LET e == Head(segs)
             rest == Tail(segs)
         IN  IF e = <<>> \/ e = Dot THEN CleanSegs(rest, rooted, out)
             ELSE IF e = DotDot
                  THEN IF out # <<>> /\ out[Len(out)] # DotDot
                       THEN CleanSegs(rest, rooted, SubSeq(out, 1, Len(out) - 1))
                       ELSE IF rooted THEN CleanSegs(rest, rooted, out)
                       ELSE CleanSegs(rest, rooted, Append(out, e))
                  ELSE CleanSegs(rest, rooted, Append(out, e))

\* path.Clean and filepath.Clean
Clean(s) ==
    LET Joined(rooted, out) ==
            IF rooted THEN Slash \o JoinSegs(out)
            ELSE IF out = <<>> THEN Dot
            ELSE JoinSegs(out)
    IN  IF s = <<>> THEN Dot
        ELSE Joined(s[1] = "/", CleanSegs(Split(s), s[1] = "/", <<>>))

\* path.IsAbs and filepath.IsAbs
IsAbs(s) ==
    s # <<>> /\ s[1] = "/"

\* filepath.Join(a, b): leading empty elements are dropped, the rest joined
\* and cleaned.
Join(a, b) ==
    IF a = <<>> /\ b = <<>> THEN <<>>
    ELSE IF a = <<>> THEN Clean(b)
    ELSE Clean(a \o Slash \o b)

\* filepath.Dir: everything up to the last slash, cleaned.
Dir(s) ==
    LET idx == {i \in 1..Len(s) : s[i] = "/"}
        last == IF idx = {} THEN 0 ELSE CHOOSE i \in idx : \A j \in idx : j <= i
    IN  Clean(SubSeq(s, 1, last))

\* The elements of a cleaned path as filepath.Rel walks them.
RelSegs(c) ==
    IF c = <<>> THEN <<>>
    ELSE IF c = Slash THEN <<<<>>>>
    ELSE Split(c)

RECURSIVE DropCommon(_, _)
DropCommon(b, t) ==
    IF b # <<>> /\ t # <<>> /\ Head(b) = Head(t)
    THEN DropCommon(Tail(b), Tail(t))
    ELSE <<b, t>>

\* filepath.Rel(base, targ): [ok, rel]
Rel(basepath, targpath) ==
    LET Up(b, t) ==
            IF b # <<>> /\ b[1] = DotDot THEN [ok |-> FALSE, rel |-> <<>>]
            ELSE IF b # <<>>
                 THEN [ok |-> TRUE,
                       rel |-> JoinSegs([i \in 1..Len(b) |-> DotDot] \o t)]
                 ELSE [ok |-> TRUE, rel |-> JoinSegs(t)]
        Differ(d) == Up(d[1], d[2])
        Between(base0, base, targ) ==
            IF targ = base0 THEN [ok |-> TRUE, rel |-> Dot]
            ELSE IF IsAbs(base) # IsAbs(targ) THEN [ok |-> FALSE, rel |-> <<>>]
            ELSE Differ(DropCommon(RelSegs(base), RelSegs(targ)))
        Cleaned(base0, targ) ==
            Between(base0, IF base0 = Dot THEN <<>> ELSE base0, targ)
    IN  Cleaned(Clean(basepath), Clean(targpath))

-----------------------------------------------------------------------------
(* pkg/paths *)

\* ValidateRelPath: "" when the path is accepted, else the error's format.
ValidateRelPath(p) ==
    LET Checked(cleaned) ==
            IF cleaned = Dot THEN "path resolves to current directory"
            ELSE IF cleaned = DotDot \/ HasPrefix(cleaned, <<".", ".", "/">>)
                 THEN "path escapes base directory: %s"
                 ELSE ""
    IN  IF p = <<>> THEN "empty path"
        ELSE IF ContainsNul(p) THEN "path contains null byte"
        ELSE IF IsAbs(p) THEN "absolute path not allowed: %s"
        ELSE Checked(Clean(p))

\* IsWithinDir (pkg/paths) and isWithinDir (pkg/pack): the same code twice.
IsWithinDir(dir, full) ==
    LET Within(r) ==
            /\ r.ok
            /\ r.rel # DotDot
            /\ ~HasPrefix(r.rel, <<".", ".", "/">>)
            /\ ~IsAbs(r.rel)
    IN  Within(Rel(dir, full))

-----------------------------------------------------------------------------
(* Permission bits *)

RECURSIVE BitAnd(_, _)
BitAnd(a, b) ==
    IF a = 0 \/ b = 0 THEN 0
    ELSE (a % 2) * (b % 2) + 2 * BitAnd(a \div 2, b \div 2)

\* 0777, the mask of FileMode.Perm() and of extractFile
PermMask == 511
\* 0755, the mode PackTar gives directory headers and UnpackTar gives MkdirAll
DirPerm == 493
\* info.Mode().Perm()
Perm(mode) ==
    BitAnd(mode, PermMask)

\* The mode a new entry gets from open(2) and mkdir(2): perm &^ umask.
Masked(perm, mask) ==
    perm - BitAnd(perm, mask)

OwnerRead(mode) ==
    BitAnd(mode, 256) # 0

OwnerWrite(mode) ==
    BitAnd(mode, 128) # 0

-----------------------------------------------------------------------------
(* The file system the os package acts on.  A file system is a function     *)
(* from the absolute path of every existing entry (cleaned, and with no     *)
(* symbolic link among its ancestors) to its node.  The process does not    *)
(* run as root: entries are created and removed only in directories        *)
(* with the owner's write bit, files are read and written only with the     *)
(* owner's read and write bits.                                             *)

\* What reading a file yields: an archive as PackTar writes it (its headers,
\* gzipped or not), no byte at all, or bytes that are no archive.
Stream(fmt, gz, hdrs) ==
    [fmt |-> fmt, gz |-> gz, hdrs |-> hdrs]

EmptyTar == Stream("none", FALSE, <<>>)

DirNode(mode) ==
    [t |-> "dir", mode |-> mode, data |-> <<>>, to |-> <<>>, tar |-> EmptyTar]

FileNode(mode, data) ==
    [t |-> "file", mode |-> mode, data |-> data, to |-> <<>>, tar |-> EmptyTar]

LinkNode(to) ==
    [t |-> "link", mode |-> PermMask, data |-> <<>>, to |-> to, tar |-> EmptyTar]

\* A file that holds the archive tar
TarNode(mode, tar) ==
    [t |-> "file", mode |-> mode, data |-> <<>>, to |-> <<>>, tar |-> tar]

\* The stream a reader of the opened node gets
StreamOf(node) ==
    IF node.t = "file" /\ node.tar.fmt = "tar" THEN node.tar
    ELSE IF node.t = "file" /\ node.data = <<>> THEN EmptyTar
    ELSE Stream("junk", FALSE, <<>>)

\* The most symbolic links one path resolution follows (the kernel's ELOOP).
MaxLinks == 2

JoinChild(cur, name) ==
    IF cur = Slash THEN Slash \o name ELSE cur \o Slash \o name

\* Path resolution, as the kernel does it: cur is the directory reached so
\* far, comps the components left.  followLast tells whether a symbolic link
\* in the last component is followed (stat, open) or not (lstat, unlink,
\* mkdir).  The result is the entry's path, or ENOENT with the path at which
\* the missing last component would be created, or an error.
RECURSIVE Lookup(_, _, _, _, _)
Lookup(fs, cur, comps, followLast, fuel) ==
    IF comps = <<>> THEN [err |-> "", path |-> cur, creatable |-> FALSE]
    ELSE IF fs[cur].t # "dir" THEN [err |-> "ENOTDIR", path |-> cur, creatable |-> FALSE]
    ELSE LET c == Head(comps)
             rest == Tail(comps)
             child == JoinChild(cur, c)
         IN  IF c = <<>> \/ c = Dot THEN Lookup(fs, cur, rest, followLast, fuel)
             ELSE IF c = DotDot THEN Lookup(fs, Dir(cur), rest, followLast, fuel)
             ELSE IF child \notin DOMAIN fs
                  THEN [err |-> "ENOENT", path |-> child,
                        creatable |-> \A i \in 1..Len(rest) : rest[i] = <<>>]
             ELSE IF fs[child].t = "link" /\ (rest # <<>> \/ followLast)
                  THEN IF fuel = 0
                       THEN [err |-> "ELOOP", path |-> child, creatable |-> FALSE]
                       ELSE Lookup(fs,
                                   IF IsAbs(fs[child].to) THEN Slash ELSE cur,
                                   Split(fs[child].to) \o rest,
                                   followLast, fuel - 1)
             ELSE Lookup(fs, child, rest, followLast, fuel)

\* The working directory of the process.
Cwd == Slash

Resolve(fs, p, followLast) ==
    IF p = <<>> THEN [err |-> "ENOENT", path |-> <<>>, creatable |-> FALSE]
    ELSE Lookup(fs, IF IsAbs(p) THEN Slash ELSE Cwd, Split(p), followLast, MaxLinks)

\* os.Stat: [err, node]
Stat(fs, p) ==
    LET At(r) ==
            IF r.err = "" THEN [err |-> "", node |-> fs[r.path]]
            ELSE [err |-> r.err, node |-> DirNode(0)]
    IN  At(Resolve(fs, p, TRUE))

\* os.Lstat, which filepath.WalkDir uses: [err, node]
Lstat(fs, p) ==
    LET At(r) ==
            IF r.err = "" THEN [err |-> "", node |-> fs[r.path]]
            ELSE [err |-> r.err, node |-> DirNode(0)]
    IN  At(Resolve(fs, p, FALSE))

\* fs with the entry q set to node
Put(fs, q, node) ==
    [x \in DOMAIN fs \cup {q} |-> IF x = q THEN node ELSE fs[x]]

\* fs without the entries of gone
Without(fs, gone) ==
    [x \in DOMAIN fs \ gone |-> fs[x]]

\* os.Mkdir(p, perm): [fs, err]
Mkdir(fs, p, perm, mask) ==
    LET At(r) ==
            IF r.err = "" THEN [fs |-> fs, err |-> "EEXIST"]
            ELSE IF ~(r.err = "ENOENT" /\ r.creatable) THEN [fs |-> fs, err |-> r.err]
            ELSE IF ~OwnerWrite(fs[Dir(r.path)].mode) THEN [fs |-> fs, err |-> "EACCES"]
            ELSE [fs |-> Put(fs, r.path, DirNode(Masked(perm, mask))), err |-> ""]
    IN  At(Resolve(fs, p, FALSE))

\* The parent MkdirAll recurses on: path[:j-1], what precedes the last
\* separator once the trailing separators are dropped; "" when j <= 1.
MkdirAllParent(p) ==
    LET ends == {i \in 1..Len(p) : \A j \in (i + 1)..Len(p) : p[j] = "/"}
        e == IF \E i \in ends : p[i] # "/"
             THEN CHOOSE i \in ends : p[i] # "/"
             ELSE 0
        seps == {i \in 1..e : p[i] = "/"}
        j == IF seps = {} THEN 0 ELSE CHOOSE k \in seps : \A i \in seps : i <= k
    IN  IF j > 1 THEN SubSeq(p, 1, j - 1) ELSE <<>>

\* os.MkdirAll(p, perm): [fs, err]
RECURSIVE MkdirAll(_, _, _, _)
MkdirAll(fs, p, perm, mask) ==
    LET Made(up, made, ls) ==
            IF made.err = "" THEN made
            ELSE IF ls.err = "" /\ ls.node.t = "dir" THEN [fs |-> up.fs, err |-> ""]
            ELSE [fs |-> up.fs, err |-> made.err]
        Last(up) ==
            IF up.err # "" THEN up
            ELSE Made(up, Mkdir(up.fs, p, perm, mask), Lstat(up.fs, p))
        Parents(parent) ==
            IF parent # <<>> THEN MkdirAll(fs, parent, perm, mask)
            ELSE [fs |-> fs, err |-> ""]
        From(st) ==
            IF st.err = ""
            THEN IF st.node.t = "dir" THEN [fs |-> fs, err |-> ""]
                 ELSE [fs |-> fs, err |-> "ENOTDIR"]
            ELSE Last(Parents(MkdirAllParent(p)))
    IN  From(Stat(fs, p))

\* os.OpenFile(p, O_CREATE|O_WRONLY|O_TRUNC, perm), the copy of data into it
\* and Close: [fs, err].  An existing file is truncated and keeps its mode; a
\* symbolic link in the last component is followed; a new file gets
\* perm &^ umask.
WriteFile(fs, p, perm, data, mask) ==
    LET Old(q, n) ==
            IF n.t = "dir" THEN [fs |-> fs, err |-> "EISDIR"]
            ELSE IF ~OwnerWrite(n.mode) THEN [fs |-> fs, err |-> "EACCES"]
            ELSE [fs |-> Put(fs, q, FileNode(n.mode, data)), err |-> ""]
        At(r) ==
            IF r.err = "" THEN Old(r.path, fs[r.path])
            ELSE IF ~(r.err = "ENOENT" /\ r.creatable) THEN [fs |-> fs, err |-> r.err]
            ELSE IF ~OwnerWrite(fs[Dir(r.path)].mode) THEN [fs |-> fs, err |-> "EACCES"]
            ELSE [fs |-> Put(fs, r.path, FileNode(Masked(perm, mask), data)), err |-> ""]
    IN  At(Resolve(fs, p, TRUE))

\* os.Open(p), f.Stat() and the read of the whole file: [err, node].  The
\* header fields come from Stat, which succeeds on a directory; reading one
\* fails.
ReadFile(fs, p) ==
    LET At(r) ==
            IF r.err # "" THEN [err |-> r.err, node |-> DirNode(0)]
            ELSE IF ~OwnerRead(fs[r.path].mode) THEN [err |-> "EACCES", node |-> DirNode(0)]
            ELSE [err |-> "", node |-> fs[r.path]]
    IN  At(Resolve(fs, p, TRUE))

\* The entries strictly below the directory d.
Below(fs, d) ==
    {q \in DOMAIN fs : q # d /\ HasPrefix(q, IF d = Slash THEN d ELSE d \o Slash)}

\* What unlinkat and rmdir allow: an entry is removed when its parent
\* directory is writable and, for a directory, when everything in it was
\* removed first.
RECURSIVE Removable(_, _)
Removable(fs, q) ==
    /\ OwnerWrite(fs[Dir(q)].mode)
    /\ fs[q].t = "dir" =>
           \A c \in {x \in Below(fs, q) : Dir(x) = q} : Removable(fs, c)

\* os.RemoveAll(p): [fs, err].  A path that does not exist is no error; what
\* can be removed is removed even when the call fails.
RemoveAll(fs, p) ==
    LET Gone(q, gone) ==
            [fs |-> Without(fs, gone), err |-> IF q \in gone THEN "" ELSE "EACCES"]
        At(r) ==
            IF r.err = "ENOENT" THEN [fs |-> fs, err |-> ""]
            ELSE IF r.err # "" THEN [fs |-> fs, err |-> r.err]
            ELSE IF r.path = Slash THEN [fs |-> fs, err |-> "EBUSY"]
            ELSE Gone(r.path,
                      {q \in Below(fs, r.path) \cup {r.path} : Removable(fs, q)})
    IN  At(Resolve(fs, p, FALSE))

\* os.Remove(p): [fs, err]
Remove(fs, p) ==
    LET At(r) ==
            IF r.err # "" THEN [fs |-> fs, err |-> r.err]
            ELSE IF r.path = Slash THEN [fs |-> fs, err |-> "EBUSY"]
            ELSE IF fs[r.path].t = "dir" /\ Below(fs, r.path) # {}
                 THEN [fs |-> fs, err |-> "ENOTEMPTY"]
            ELSE IF ~OwnerWrite(fs[Dir(r.path)].mode) THEN [fs |-> fs, err |-> "EACCES"]
            ELSE [fs |-> Without(fs, {r.path}), err |-> ""]
    IN  At(Resolve(fs, p, FALSE))

-----------------------------------------------------------------------------
(* pkg/pack/pack.go: PackTar *)

\* A header as tar.Writer.WriteHeader receives it, with the body written
\* after it.
Header(typeflag, name, mode, body) ==
    [Typeflag |-> typeflag, Name |-> name, Mode |-> mode, Size |-> Len(body),
     ModTime |-> 0, body |-> body]

\* The prefixes "p1", "p1/p2", ... that the inner loop of collectDirs builds
\* with its strings.Builder.
DirPrefixes(parts) ==
    [i \in 1..Len(parts) |-> JoinSegs(SubSeq(parts, 1, i))]

\* Appends those of ds that are not yet in seen (the seen map of collectDirs).
RECURSIVE AppendUnseen(_, _)
AppendUnseen(seen, ds) ==
    IF ds = <<>> THEN seen
    ELSE IF Head(ds) \in Range(seen) THEN AppendUnseen(seen, Tail(ds))
    ELSE AppendUnseen(Append(seen, Head(ds)), Tail(ds))

\* collectDirs(filePaths), with the result so far as accumulator.
RECURSIVE CollectDirsFrom(_, _)
CollectDirsFrom(filePaths, acc) ==
    IF filePaths = <<>> THEN acc
    ELSE LET dir == Dir(Head(filePaths))
         IN  IF dir = Dot THEN CollectDirsFrom(Tail(filePaths), acc)
             ELSE CollectDirsFrom(Tail(filePaths),
                                  AppendUnseen(acc, DirPrefixes(Split(dir))))

\* collectDirs(filePaths), were it to look at the first path only
collectDirsOfFirst(filePaths) ==
    IF filePaths = <<>> THEN <<>> ELSE CollectDirsFrom(<<Head(filePaths)>>, <<>>)

collectDirs(filePaths) ==
    CollectDirsFrom(filePaths, <<>>)

\* tar.Writer.WriteHeader refuses a name no tar format can encode: one that
\* holds a NUL byte.
WriteHeaderFails(name) ==
    ContainsNul(name)

\* The first loop of PackTar: one directory header per collected directory.
\* [hdrs, err]
RECURSIVE WriteDirHeaders(_, _)
WriteDirHeaders(dirs, hdrs) ==
    IF dirs = <<>> THEN [hdrs |-> hdrs, err |-> ""]
    ELSE IF WriteHeaderFails(Head(dirs) \o Slash)
         THEN [hdrs |-> hdrs, err |-> "write dir header"]
         ELSE WriteDirHeaders(Tail(dirs),
                  Append(hdrs, Header("dir", Head(dirs) \o Slash, DirPerm, <<>>)))

\* addFileToTar(tw, absPath, relPath): [hdrs, err].  The file is opened
\* through symbolic links; the header carries the path as it was given.
addFileToTar(fs, hdrs, absPath, relPath) ==
    LET Opened(f) ==
            IF f.err # "" THEN [hdrs |-> hdrs, err |-> "open %s"]
            ELSE IF WriteHeaderFails(relPath)
                 THEN [hdrs |-> hdrs, err |-> "write header %s"]
            ELSE IF f.node.t = "dir"
                 THEN [hdrs |-> Append(hdrs,
                                   Header("reg", relPath, Perm(f.node.mode), <<>>)),
                       err |-> "write body %s"]
                 ELSE [hdrs |-> Append(hdrs,
                                   Header("reg", relPath, Perm(f.node.mode), f.node.data)),
                       err |-> ""]
    IN  Opened(ReadFile(fs, absPath))

\* pack.go:47-53, the two checks of the second loop of PackTar.
PackGate(dir, rel) ==
    IF ValidateRelPath(rel) # "" THEN "invalid path %s"
    ELSE IF ~IsWithinDir(dir, Join(dir, rel)) THEN "path escapes dir: %s"
    ELSE ""

\* The second loop of PackTar: [hdrs, count, err]
RECURSIVE WriteFiles(_, _, _, _, _)
WriteFiles(fs, dir, filePaths, hdrs, count) ==
    LET Added(added) ==
            IF added.err # "" THEN [hdrs |-> added.hdrs, count |-> 0, err |-> added.err]
            ELSE WriteFiles(fs, dir, Tail(filePaths), added.hdrs, count + 1)
        Gated(rel, gate) ==
            IF gate # "" THEN [hdrs |-> hdrs, count |-> 0, err |-> gate]
            ELSE Added(addFileToTar(fs, hdrs, Join(dir, rel), rel))
    IN  IF filePaths = <<>> THEN [hdrs |-> hdrs, count |-> count, err |-> ""]
        ELSE Gated(Head(filePaths), PackGate(dir, Head(filePaths)))

\* PackTar(dir, filePaths, w, compress): what reached the writer (gz tells
\* whether it went through gzip), the count and the error returned.
PackTar(fs, dir, filePaths, compress) ==
    LET Files(f) ==
            [tar |-> Stream("tar", compress, f.hdrs), count |-> f.count, err |-> f.err]
        Dirs(d) ==
            IF d.err # ""
            THEN [tar |-> Stream("tar", compress, d.hdrs), count |-> 0, err |-> d.err]
            ELSE Files(WriteFiles(fs, dir, filePaths, d.hdrs, 0))
    IN  Dirs(WriteDirHeaders(collectDirs(filePaths), <<>>))

-----------------------------------------------------------------------------
(* UnpackTar *)

\* validateTarPath(name): "" when the name is accepted
validateTarPath(name) ==
    IF name = <<>> \/ name = Dot THEN ""
    ELSE IF IsAbs(name) THEN "absolute path in tar: %s"
    ELSE IF Contains(name, DotDot) /\ DotDot \in Range(Split(name))
         THEN "path traversal in tar: %s"
         ELSE ""

\* extractFile(tr, target, hdr): [fs, err]
extractFile(fs, target, hdr, mask) ==
    LET Opened(w) ==
            IF w.err # "" THEN [fs |-> w.fs, err |-> "create %s"]
            ELSE w
        In(parent) ==
            IF parent.err # "" THEN [fs |-> parent.fs, err |-> "mkdir parent"]
            ELSE Opened(WriteFile(parent.fs, target, BitAnd(hdr.Mode, PermMask),
                                  hdr.body, mask))
    IN  In(MkdirAll(fs, Dir(target), DirPerm, mask))

\* The two checks UnpackTar makes on the cleaned name of each header.
UnpackGate(dir, name) ==
    LET Valid(err) ==
            IF err # "" THEN err
            ELSE IF ~IsWithinDir(dir, Join(dir, name)) THEN "path escapes dir: %s"
            ELSE ""
    IN  Valid(validateTarPath(name))

\* The header loop of UnpackTar: [fs, count, err]
RECURSIVE UnpackHeaders(_, _, _, _, _)
UnpackHeaders(fs, hdrs, dir, count, mask) ==
    LET hdr == Head(hdrs)
        Made(made) ==
            IF made.err # "" THEN [fs |-> made.fs, count |-> count, err |-> "mkdir %s"]
            ELSE UnpackHeaders(made.fs, Tail(hdrs), dir, count, mask)
        Extracted(file) ==
            IF file.err # "" THEN [fs |-> file.fs, count |-> count, err |-> file.err]
            ELSE UnpackHeaders(file.fs, Tail(hdrs), dir, count + 1, mask)
        Gated(gate, target) ==
            IF gate # "" THEN [fs |-> fs, count |-> count, err |-> gate]
            ELSE IF hdr.Typeflag = "dir" THEN Made(MkdirAll(fs, target, DirPerm, mask))
            ELSE IF hdr.Typeflag = "reg" THEN Extracted(extractFile(fs, target, hdr, mask))
            ELSE UnpackHeaders(fs, Tail(hdrs), dir, count, mask)
        Named(name) ==
            Gated(UnpackGate(dir, name), Join(dir, name))
    IN  IF hdrs = <<>> THEN [fs |-> fs, count |-> count, err |-> ""]
        ELSE Named(Clean(hdr.Name))

\* UnpackTar(r, dir, compress): [fs, count, err].  gzip.NewReader fails on
\* what is no gzip stream, the first tr.Next() on what is no archive; a
\* stream of no bytes is an archive without headers to tr.Next().
UnpackTar(fs, tar, dir, compress, mask) ==
    LET In(root) ==
            IF root.err # "" THEN [fs |-> root.fs, count |-> 0, err |-> "create dir"]
            ELSE IF compress /\ ~(tar.fmt = "tar" /\ tar.gz)
                 THEN [fs |-> root.fs, count |-> 0, err |-> "gzip reader"]
            ELSE IF ~compress /\ (tar.fmt = "junk" \/ (tar.fmt = "tar" /\ tar.gz))
                 THEN [fs |-> root.fs, count |-> 0, err |-> "read tar"]
            ELSE UnpackHeaders(root.fs, tar.hdrs, dir, 0, mask)
    IN  In(MkdirAll(fs, dir, DirPerm, mask))

-----------------------------------------------------------------------------
(* pkg/pack/diff.go *)

\* sort.Strings, as an insertion sort on the byte order.
RECURSIVE InsertSorted(_, _)
InsertSorted(sorted, s) ==
    IF sorted = <<>> THEN <<s>>
    ELSE IF StrLess(s, Head(sorted)) THEN <<s>> \o sorted
    ELSE <<Head(sorted)>> \o InsertSorted(Tail(sorted), s)

\* Mutant of SortStrings: the slice is returned in append order.
SortStringsNone(seq) ==
    seq

RECURSIVE SortStrings(_)
SortStrings(seq) ==
    IF seq = <<>> THEN <<>>
    ELSE InsertSorted(SortStrings(Tail(seq)), Head(seq))

\* SelectSeq with a two-argument test.
RECURSIVE FilterSeq(_, _)
FilterSeq(seq, keep) ==
    IF seq = <<>> THEN <<>>
    ELSE IF Head(seq) \in keep THEN <<Head(seq)>> \o FilterSeq(Tail(seq), keep)
    ELSE FilterSeq(Tail(seq), keep)

\* Mutant of NeedsUpload: a path is uploaded only when the target lacks it.
NeedsUploadMissingOnly(src, tgt, path) ==
    path \notin DOMAIN tgt

\* Mutant of NeedsUpload: the whole entries are compared, not the hashes.
NeedsUploadWholeEntry(src, tgt, path) ==
    \/ path \notin DOMAIN tgt
    \/ src[path] # tgt[path]

\* diff.go:18, the test of the first loop.
NeedsUpload(src, tgt, path) ==
    \/ path \notin DOMAIN tgt
    \/ src[path].Hash # tgt[path].Hash

\* diff.go:25, the test of the second loop.
NeedsDelete(src, tgt, path) ==
    path \notin DOMAIN src

\* The orders in which a Go range loop may visit the keys of a map.
RangeOrders(keys) ==
    {o \in [1..Cardinality(keys) -> keys] :
        \A i, j \in 1..Cardinality(keys) : i # j => o[i] # o[j]}

\* ComputeDiff(local, remote, deleteEnabled). o1 and o2 are the orders in
\* which the two range loops visit the keys of local and of remote (Go leaves
\* them unspecified): the appends happen in that order, then both slices are
\* sorted.
ComputeDiff(src, tgt, del, o1, o2) ==
    LET ups == FilterSeq(o1, {p \in DOMAIN src : NeedsUpload(src, tgt, p)})
        dels == IF del
                THEN FilterSeq(o2, {p \in DOMAIN tgt : NeedsDelete(src, tgt, p)})
                ELSE <<>>
    IN  [Uploads |-> SortStrings(ups), Deletes |-> SortStrings(dels)]

-----------------------------------------------------------------------------
(* The exclude patterns of pkg/paths *)

\* filepath.Match(pattern, name) for patterns of literal bytes, `*` and `?`
\* (a pattern with neither `[` nor `\` is never malformed).
RECURSIVE Match(_, _)
Match(pattern, name) ==
    IF pattern = <<>> THEN name = <<>>
    ELSE IF Head(pattern) = "*"
         THEN \/ Match(Tail(pattern), name)
              \/ name # <<>> /\ Head(name) # "/" /\ Match(pattern, Tail(name))
    ELSE /\ name # <<>>
         /\ IF Head(pattern) = "?" THEN Head(name) # "/" ELSE Head(name) = Head(pattern)
         /\ Match(Tail(pattern), Tail(name))

\* strings.TrimSuffix
TrimSuffix(s, suffix) ==
    IF Len(suffix) <= Len(s) /\ SubSeq(s, Len(s) - Len(suffix) + 1, Len(s)) = suffix
    THEN SubSeq(s, 1, Len(s) - Len(suffix))
    ELSE s

\* strings.TrimPrefix
TrimPrefix(s, prefix) ==
    IF HasPrefix(s, prefix) THEN SubSeq(s, Len(prefix) + 1, Len(s)) ELSE s

DoubleStar == <<"*", "*">>

\* strings.Split(s, "**")
RECURSIVE SplitStars(_)
SplitStars(s) ==
    IF ~Contains(s, DoubleStar) THEN <<s>>
    ELSE LET i == CHOOSE k \in 1..(Len(s) - 1) :
                     /\ SubSeq(s, k, k + 1) = DoubleStar
                     /\ \A j \in 1..(k - 1) : SubSeq(s, j, j + 1) # DoubleStar
         IN  <<SubSeq(s, 1, i - 1)>> \o SplitStars(SubSeq(s, i + 2, Len(s)))

matchSuffix(suffix, relPath) ==
    LET Tails(parts) ==
            \E i \in 1..Len(parts) :
                Match(suffix, JoinSegs(SubSeq(parts, i, Len(parts))))
    IN  Tails(Split(relPath))

matchDoublestar(pattern, relPath) ==
    LET Around(prefix, suffix) ==
            IF prefix = <<>> /\ suffix = <<>> THEN TRUE
            ELSE IF prefix = <<>> THEN matchSuffix(suffix, relPath)
            ELSE IF suffix = <<>>
                 THEN HasPrefix(relPath, prefix \o Slash) \/ relPath = prefix
            ELSE IF ~HasPrefix(relPath, prefix \o Slash) THEN FALSE
            ELSE matchSuffix(suffix, TrimPrefix(relPath, prefix \o Slash))
        Halves(parts) ==
            IF Len(parts) # 2 THEN FALSE
            ELSE Around(TrimSuffix(parts[1], Slash), TrimPrefix(parts[2], Slash))
    IN  Halves(SplitStars(pattern))

matchPathPattern(pattern, relPath) ==
    IF Contains(pattern, DoubleStar) THEN matchDoublestar(pattern, relPath)
    ELSE Match(pattern, relPath)

matchPatternUntrimmed(pattern, relPath) ==
    LET Trimmed(pat) ==
            IF Contains(pat, Slash) THEN matchPathPattern(pat, relPath)
            ELSE IF \E part \in Range(Split(relPath)) : Match(pat, part) THEN TRUE
            ELSE IF Contains(pat, DoubleStar) THEN matchDoublestar(pat, relPath)
            ELSE FALSE
    IN  Trimmed(pattern)

matchPattern(pattern, relPath) ==
    LET Trimmed(pat) ==
            IF Contains(pat, Slash) THEN matchPathPattern(pat, relPath)
            ELSE IF \E part \in Range(Split(relPath)) : Match(pat, part) THEN TRUE
            ELSE IF Contains(pat, DoubleStar) THEN matchDoublestar(pat, relPath)
            ELSE FALSE
    IN  Trimmed(TrimSuffix(pattern, Slash))

\* ExcludeMatcher.Match
ExcludeMatch(patterns, relPath) ==
    \E i \in 1..Len(patterns) : matchPattern(patterns[i], relPath)

-----------------------------------------------------------------------------
(* filepath.WalkDir and the manifests *)

\* The sequence of the strings of S in ascending byte order
RECURSIVE SortedSeq(_)
SortedSeq(S) ==
    IF S = {} THEN <<>>
    ELSE LET m == CHOOSE x \in S : \A y \in S : x = y \/ StrLess(x, y)
         IN  <<m>> \o SortedSeq(S \ {m})

\* os.ReadDir of the directory at d: the names of its entries, sorted
ReadDirNames(fs, d) ==
    SortedSeq({SubSeq(q, Len(JoinChild(d, <<>>)) + 1, Len(q)) :
                   q \in {x \in Below(fs, d) : Dir(x) = d}})

\* One call of the WalkDirFunc: the path, what it is relative to the root, the
\* type of the entry as Lstat gives it, and the error passed.
Visit(p, rel, t, err) ==
    [p |-> p, rel |-> rel, t |-> t, err |-> err]

\* walkDir: the calls made for the entry p, which is at phys, and below it.
\* Both WalkDirFuncs of the repository return SkipDir for a directory that an
\* exclude pattern matches and nil for everything else the walk goes on
\* after; the root is never matched (its rel is ".").
RECURSIVE walkDir(_, _, _, _, _)
RECURSIVE walkNames(_, _, _, _, _, _)
walkDir(fs, root, excludes, p, phys) ==
    LET Entered(rel, node) ==
            IF node.t # "dir" THEN <<Visit(p, rel, node.t, "")>>
            ELSE IF rel # Dot /\ ExcludeMatch(excludes, rel)
                 THEN <<Visit(p, rel, "dir", "")>>
            ELSE IF ~OwnerRead(node.mode)
                 THEN <<Visit(p, rel, "dir", ""), Visit(p, rel, "dir", "EACCES")>>
            ELSE <<Visit(p, rel, "dir", "")>>
                 \o walkNames(fs, root, excludes, p, phys, ReadDirNames(fs, phys))
    IN  Entered(Rel(root, p).rel, fs[phys])

walkNames(fs, root, excludes, p, phys, names) ==
    IF names = <<>> THEN <<>>
    ELSE walkDir(fs, root, excludes, Join(p, Head(names)), JoinChild(phys, Head(names)))
         \o walkNames(fs, root, excludes, p, phys, Tail(names))

\* filepath.WalkDir(root, fn): the calls of fn, in order.  The root is
\* looked at with Lstat: a root that is a symbolic link is not entered.
WalkDir(fs, root, excludes) ==
    LET At(r) ==
            IF r.err # "" THEN <<Visit(root, Dot, "none", r.err)>>
            ELSE walkDir(fs, root, excludes, root, r.path)
    IN  At(Resolve(fs, root, FALSE))

\* hex.EncodeToString(h.Sum(nil)) of SHA-256: one value per content.
Sha256Hex(node) ==
    [sha256 |-> <<node.data>>, of |-> node.tar]

\* The bytes in an archive: a 512-byte header and the body in 512-byte
\* blocks for each entry, and two empty blocks at the end.
RECURSIVE TarSize(_)
TarSize(hdrs) ==
    IF hdrs = <<>> THEN 1024
    ELSE 512 + 512 * ((Head(hdrs).Size + 511) \div 512) + TarSize(Tail(hdrs))

\* info.Size()
FileSize(node) ==
    IF node.tar.fmt = "tar" THEN TarSize(node.tar.hdrs) ELSE Len(node.data)

\* hashFileEntry (spryncd) and hashFile (pkg/pack): the same code twice.
\* [err, entry]
hashFile(fs, absPath, relPath) ==
    LET Opened(f) ==
            IF f.err # "" \/ f.node.t = "dir"
            THEN [err |-> IF f.err # "" THEN f.err ELSE "EISDIR",
                  entry |-> [Path |-> relPath, Hash |-> Sha256Hex(DirNode(0)),
                             Mode |-> 0, Size |-> 0]]
            ELSE [err |-> "",
                  entry |-> [Path |-> relPath, Hash |-> Sha256Hex(f.node),
                             Mode |-> Perm(f.node.mode), Size |-> FileSize(f.node)]]
    IN  Opened(ReadFile(fs, absPath))

\* The visits turned into a file to hash, were the type of the entry not
\* looked at.
IsJobAnyType(excludes, v) ==
    /\ v.err = ""
    /\ v.rel # Dot
    /\ ~ExcludeMatch(excludes, v.rel)

\* The visits a WalkDirFunc of the repository turns into a file to hash:
\* not the root, not excluded, a regular file.
IsJob(excludes, v) ==
    /\ v.err = ""
    /\ v.rel # Dot
    /\ ~ExcludeMatch(excludes, v.rel)
    /\ v.t = "file"

\* entriesToManifest, and the map WalkLocal fills: the last entry of a path wins.
EntriesToManifest(entries) ==
    [path \in {entries[i].Path : i \in 1..Len(entries)} |->
        entries[CHOOSE i \in 1..Len(entries) :
                    /\ entries[i].Path = path
                    /\ \A j \in (i + 1)..Len(entries) : entries[j].Path # path]]

\* The hash results of the jobs among the visits vs, in order
RECURSIVE HashJobs(_, _, _)
HashJobs(fs, excludes, vs) ==
    IF vs = <<>> THEN <<>>
    ELSE IF IsJob(excludes, Head(vs))
         THEN <<hashFile(fs, Head(vs).p, Head(vs).rel)>> \o HashJobs(fs, excludes, Tail(vs))
         ELSE HashJobs(fs, excludes, Tail(vs))

\* WalkLocal(dir, excludes): [err, manifest].  The walk stops at the first
\* error passed to its function; a file that cannot be hashed fails the call.
WalkLocal(fs, dir, excludes) ==
    LET Hashed(rs) ==
            IF \E i \in 1..Len(rs) : rs[i].err # ""
            THEN [err |-> "hash", manifest |-> <<>>]
            ELSE [err |-> "",
                  manifest |-> EntriesToManifest([i \in 1..Len(rs) |-> rs[i].entry])]
        Walked(vs) ==
            IF \E i \in 1..Len(vs) : vs[i].err # ""
            THEN [err |-> "walk", manifest |-> <<>>]
            ELSE Hashed(HashJobs(fs, excludes, vs))
    IN  Walked(WalkDir(fs, dir, excludes))

\* The fileJobs the WalkDirFunc of WalkLocal appends for the visits vs
RECURSIVE fileJobs(_, _)
fileJobs(excludes, vs) ==
    IF vs = <<>> THEN <<>>
    ELSE IF IsJob(excludes, Head(vs))
         THEN <<[relPath |-> Head(vs).rel, absPath |-> Head(vs).p]>>
              \o fileJobs(excludes, Tail(vs))
         ELSE fileJobs(excludes, Tail(vs))

\* The files WalkLocal(dir, excludes) queues on fs
queuedFiles(fs, dir, excludes) ==
    LET Queued(js) == {js[i].absPath : i \in 1..Len(js)}
        Walked(vs) ==
            IF \E i \in 1..Len(vs) : vs[i].err # "" THEN {}
            ELSE Queued(fileJobs(excludes, vs))
    IN  Walked(WalkDir(fs, dir, excludes))

\* WalkLocal(dir, excludes) where the walk sees fs and the workers, later,
\* see after: [err, errs, manifest], errs the errors it may return, which
\* is the first error of the walk, or the error of any file that could not
\* be hashed.
WalkLocalThen(fs, after, dir, excludes) ==
    LET Hashed(rs) ==
            IF \E i \in 1..Len(rs) : rs[i].err # ""
            THEN [err |-> "hash",
                  errs |-> {rs[i].err : i \in {k \in 1..Len(rs) : rs[k].err # ""}},
                  manifest |-> <<>>]
            ELSE [err |-> "", errs |-> {},
                  manifest |-> EntriesToManifest([i \in 1..Len(rs) |-> rs[i].entry])]
        Walked(vs) ==
            IF \E i \in 1..Len(vs) : vs[i].err # ""
            THEN [err |-> "walk",
                  errs |-> {vs[CHOOSE i \in 1..Len(vs) :
                                   /\ vs[i].err # ""
                                   /\ \A k \in 1..(i - 1) : vs[k].err = ""].err},
                  manifest |-> <<>>]
            ELSE Hashed(HashJobs(after, excludes, vs))
    IN  Walked(WalkDir(fs, dir, excludes))

-----------------------------------------------------------------------------
(* cmd/spryncd: the agent *)

NoHash == Sha256Hex(DirNode(0))

\* A protocol.Response with the fields the agent does not set at their zero
\* values.  A message is the chain of its formats, the outermost first: the
\* error of ValidateRelPath wrapped by validatePaths is
\* <<"invalid path: %w", "path escapes base directory: %s">>.
Response(type) ==
    [Type |-> type, Message |-> <<>>, Fatal |-> FALSE, Path |-> <<>>, Hash |-> NoHash,
     Mode |-> 0, Size |-> 0, Count |-> 0, Exists |-> FALSE, Dest |-> <<>>]

\* sender.fatal
fatal(msg) ==
    [Response("error") EXCEPT !.Message = msg, !.Fatal = TRUE]

\* sender.nonFatal
nonFatal(msg) ==
    [Response("error") EXCEPT !.Message = msg]

\* What a handler leaves: the file system, trackedFiles, the responses sent.
Handled(fs, tracked, out) ==
    [fs |-> fs, tracked |-> tracked, out |-> out]

\* validateDir, were it to refuse the empty string only.
validateDirNotEmpty(fs, dir) ==
    IF dir = <<>> THEN <<"missing dir">> ELSE <<>>

\* validateDir(dir): <<>> when the directory is accepted, else the message
validateDir(fs, dir) ==
    LET Statted(st) ==
            IF st.err # "" THEN <<"dir not found: %s">>
            ELSE IF st.node.t # "dir" THEN <<"not a directory: %s">>
            ELSE <<>>
    IN  IF dir = <<>> THEN <<"missing dir">> ELSE Statted(Stat(fs, dir))

\* validatePaths(pathList): <<>> or the message for the first path refused
RECURSIVE validatePaths(_)
validatePaths(pathList) ==
    IF pathList = <<>> THEN <<>>
    ELSE IF ValidateRelPath(Head(pathList)) # ""
         THEN <<"invalid path: %w", ValidateRelPath(Head(pathList))>>
    ELSE validatePaths(Tail(pathList))

\* validTmpPath
validTmpPath(p) ==
    p # <<>> /\ HasPrefix(p, <<"/", "t", "m", "p", "/">>)

\* The loop of handlePack and handleTransfer over req.Paths: <<>> or the
\* message for the first path that joins outside dir
RECURSIVE pathsWithinDir(_, _)
pathsWithinDir(dir, pathList) ==
    IF pathList = <<>> THEN <<>>
    ELSE IF ~IsWithinDir(dir, Join(dir, Head(pathList)))
         THEN <<"path escapes dir: %s">>
    ELSE pathsWithinDir(dir, Tail(pathList))

\* The first loop of handleDelete: both checks on each path in turn
RECURSIVE deletePathsChecked(_, _)
deletePathsChecked(dir, pathList) ==
    IF pathList = <<>> THEN <<>>
    ELSE IF ValidateRelPath(Head(pathList)) # ""
         THEN <<"invalid path: %s", ValidateRelPath(Head(pathList))>>
    ELSE IF ~IsWithinDir(dir, Join(dir, Head(pathList)))
         THEN <<"path escapes dir: %s">>
    ELSE deletePathsChecked(dir, Tail(pathList))

\* Mutant of PackChecks: the paths are not checked.
PackChecksDirOnly(fs, req) ==
    validateDir(fs, req.Dir)

\* What handlePack and handleTransfer check first, in order: the
\* directory, the paths, and for a pack the destination; then that each
\* path joins inside the directory.
PackChecks(fs, req) ==
    IF validateDir(fs, req.Dir) # <<>> THEN validateDir(fs, req.Dir)
    ELSE IF validatePaths(req.Paths) # <<>> THEN validatePaths(req.Paths)
    ELSE IF req.Cmd = "pack" /\ ~validTmpPath(req.Dest) THEN <<"dest must be under /tmp/">>
    ELSE pathsWithinDir(req.Dir, req.Paths)

\* The bytes written through the open file f reach the file p names.
WriteTar(fs, p, tar) ==
    LET At(r) == Put(fs, r.path, TarNode(fs[r.path].mode, tar))
    IN  At(Resolve(fs, p, TRUE))

handlePack(fs, tracked, req, mask) ==
    LET Statted(fs2, count, st) ==
            IF st.err # ""
            THEN Handled(fs2, Append(tracked, req.Dest), <<fatal(<<"stat dest: %s">>)>>)
            ELSE Handled(fs2, Append(tracked, req.Dest),
                         <<[Response("pack_done") EXCEPT !.Dest = req.Dest,
                                                         !.Size = FileSize(st.node),
                                                         !.Count = count]>>)
        Closed(fs2, count) ==
            Statted(fs2, count, Stat(fs2, req.Dest))
        Packed(created, r) ==
            IF r.err # ""
            THEN Handled(Remove(created.fs, req.Dest).fs, Append(tracked, req.Dest),
                         <<fatal(<<"pack: %s", r.err>>)>>)
            ELSE Closed(WriteTar(created.fs, req.Dest, r.tar), r.count)
        Created(created) ==
            IF created.err # ""
            THEN Handled(created.fs, Append(tracked, req.Dest),
                         <<fatal(<<"create dest: %s">>)>>)
            ELSE Packed(created, PackTar(created.fs, req.Dir, req.Paths, req.Compress))
        Checked(refused) ==
            IF refused # <<>> THEN Handled(fs, tracked, <<fatal(refused)>>)
            ELSE Created(WriteFile(fs, req.Dest, 438, <<>>, mask))
    IN  Checked(PackChecks(fs, req))

handleExtract(fs, tracked, req, mask) ==
    LET Unpacked(r) ==
            IF r.err # "" THEN Handled(r.fs, tracked, <<fatal(<<"extract: %s", r.err>>)>>)
            ELSE Handled(Remove(r.fs, req.Src).fs, tracked,
                         <<[Response("extract_done") EXCEPT !.Count = r.count]>>)
        Opened(f, r) ==
            IF f.err # "" THEN Handled(fs, tracked, <<fatal(<<"open src: %s">>)>>)
            ELSE Unpacked(r)
    IN  IF req.Dir = <<>> THEN Handled(fs, tracked, <<fatal(<<"missing dir">>)>>)
        ELSE IF ~validTmpPath(req.Src)
             THEN Handled(fs, tracked, <<fatal(<<"src must be under /tmp/">>)>>)
        ELSE Opened(ReadFile(fs, req.Src),
                    UnpackTar(fs, StreamOf(ReadFile(fs, req.Src).node), req.Dir,
                              req.Compress, mask))

\* The second loop of handleDelete: [fs, count, out]
RECURSIVE removePaths(_, _, _, _, _)
removePaths(fs, dir, pathList, count, out) ==
    LET Removed(r) ==
            IF r.err # ""
            THEN removePaths(r.fs, dir, Tail(pathList), count,
                             Append(out, nonFatal(<<"delete %s: %s">>)))
            ELSE removePaths(r.fs, dir, Tail(pathList), count + 1, out)
    IN  IF pathList = <<>> THEN [fs |-> fs, count |-> count, out |-> out]
        ELSE Removed(RemoveAll(fs, Join(dir, Head(pathList))))

\* What handleDelete checks before it removes anything
DeleteChecks(fs, req) ==
    IF validateDir(fs, req.Dir) # <<>> THEN validateDir(fs, req.Dir)
    ELSE deletePathsChecked(req.Dir, req.Paths)

\* handleDelete, were delete_done to follow the fatal error of a refusal.
handleDeleteDoneAfterFatal(fs, tracked, req) ==
    LET Removed(r) ==
            Handled(r.fs, tracked,
                    Append(r.out, [Response("delete_done") EXCEPT !.Count = r.count]))
        Checked(refused) ==
            IF refused # <<>>
            THEN Handled(fs, tracked, <<fatal(refused), Response("delete_done")>>)
            ELSE Removed(removePaths(fs, req.Dir, req.Paths, 0, <<>>))
    IN  Checked(DeleteChecks(fs, req))

handleDelete(fs, tracked, req) ==
    LET Removed(r) ==
            Handled(r.fs, tracked,
                    Append(r.out, [Response("delete_done") EXCEPT !.Count = r.count]))
        Checked(refused) ==
            IF refused # <<>> THEN Handled(fs, tracked, <<fatal(refused)>>)
            ELSE Removed(removePaths(fs, req.Dir, req.Paths, 0, <<>>))
    IN  Checked(DeleteChecks(fs, req))

\* How the PUT of handleTransfer ends: the server read the body and answered
\* below 400 ("done"), answered 400 or above ("refused"), answered below 400
\* before the body was read to its end, the rest of it being read after the
\* answer ("early") or never ("stalled"), or the request failed ("down").
HttpOutcomes == {"done", "refused", "early", "stalled", "down"}

\* A URL that url.Parse and http.NewRequest refuse (a control character)
BadURL == <<NUL>>

\* The query of a URL starts after its `?`; the URLs here have one parameter.
PathParam == <<"?", "p", "a", "t", "h", "=">>

\* extractPathParam(rawURL): the value of the query parameter `path`
extractPathParam(rawURL) ==
    LET at == {i \in 1..(Len(rawURL) - Len(PathParam) + 1) :
                  SubSeq(rawURL, i, i + Len(PathParam) - 1) = PathParam}
    IN  IF rawURL = BadURL \/ at = {} THEN <<>>
        ELSE SubSeq(rawURL, (CHOOSE i \in at : \A j \in at : i <= j) + Len(PathParam),
                    Len(rawURL))

\* The agent's file system is not changed by a transfer: the archive goes
\* through a pipe into the body of the request.  The body is no io.Closer, so
\* nothing closes the read end of the pipe: when the body is not read to its
\* end the pack goroutine stays in its write (PackTar writes the end of the
\* archive even when it fails), and after an answer below 400 the handler
\* waits for its result and sends nothing.
handleTransfer(fs, tracked, req, http) ==
    LET Sent(r) ==
            IF http = "down" \/ (http = "done" /\ r.err # "")
            THEN <<fatal(<<"transfer: %s">>)>>
            ELSE IF http = "refused" THEN <<fatal(<<"transfer http %d">>)>>
            ELSE IF http = "stalled" THEN <<>>
            ELSE IF r.err # "" THEN <<fatal(<<"pack: %s", r.err>>)>>
            ELSE <<[Response("transfer_done") EXCEPT !.Count = r.count,
                                                     !.Size = TarSize(r.tar.hdrs),
                                                     !.Dest = extractPathParam(req.URL)]>>
        Checked(refused) ==
            IF refused # <<>> THEN <<fatal(refused)>>
            ELSE IF req.URL = <<>> THEN <<fatal(<<"missing url">>)>>
            ELSE IF req.Token = <<>> THEN <<fatal(<<"missing token">>)>>
            ELSE IF req.URL = BadURL THEN <<fatal(<<"build request: %s">>)>>
            ELSE Sent(PackTar(fs, req.Dir, req.Paths, req.Compress))
    IN  Handled(fs, tracked, Checked(PackChecks(fs, req)))

\* The responses of handleManifest to the calls of its WalkDirFunc
RECURSIVE manifestEntries(_, _, _)
manifestEntries(fs, excludes, vs) ==
    LET Hashed(h) ==
            IF h.err # "" THEN <<nonFatal(<<"hash %s: %s">>)>>
            ELSE <<[Response("entry") EXCEPT !.Path = h.entry.Path,
                                             !.Hash = h.entry.Hash,
                                             !.Mode = h.entry.Mode,
                                             !.Size = h.entry.Size]>>
        Called(v) ==
            IF v.err # "" THEN <<nonFatal(<<"walk: %s">>)>>
            ELSE IF ~IsJob(excludes, v) THEN <<>>
            ELSE Hashed(hashFile(fs, v.p, v.rel))
    IN  IF vs = <<>> THEN <<>>
        ELSE Called(Head(vs)) \o manifestEntries(fs, excludes, Tail(vs))

\* The number of entry responses among out
EntryCount(out) ==
    Cardinality({i \in 1..Len(out) : out[i].Type = "entry"})

\* handleManifest, were it to refuse a directory as the other handlers do.
handleManifestValidating(fs, tracked, req) ==
    LET Walked(out) ==
            Append(out, [Response("manifest_done") EXCEPT !.Count = EntryCount(out),
                                                          !.Exists = TRUE])
        Statted(st) ==
            IF st.err # "" \/ st.node.t # "dir" THEN <<fatal(<<"dir not found: %s">>)>>
            ELSE Walked(manifestEntries(fs, req.Excludes,
                                        WalkDir(fs, req.Dir, req.Excludes)))
    IN  Handled(fs, tracked, Statted(Stat(fs, req.Dir)))

handleManifest(fs, tracked, req) ==
    LET Walked(out) ==
            Append(out, [Response("manifest_done") EXCEPT !.Count = EntryCount(out),
                                                          !.Exists = TRUE])
        Statted(st) ==
            IF st.err # "" \/ st.node.t # "dir" THEN <<Response("manifest_done")>>
            ELSE Walked(manifestEntries(fs, req.Excludes,
                                        WalkDir(fs, req.Dir, req.Excludes)))
    IN  Handled(fs, tracked, Statted(Stat(fs, req.Dir)))

\* cleanup(): os.Remove of every tracked file, errors ignored
RECURSIVE cleanup(_, _)
cleanup(fs, tracked) ==
    IF tracked = <<>> THEN fs
    ELSE cleanup(Remove(fs, Head(tracked)).fs, Tail(tracked))

\* Session.Close: quit to the agent, which runs cleanup() and exits, and
\* `rm -f` of the binary.  The file system left.
closeSession(fs, tracked, bin) ==
    Remove(cleanup(fs, tracked), bin).fs

\* A line of the agent's input: a request; Cmd is "" for a line that
\* ParseRequest refuses.
Request(cmd) ==
    [Cmd |-> cmd, Dir |-> <<>>, Excludes |-> <<>>, Paths |-> <<>>, Dest |-> <<>>,
     Src |-> <<>>, Compress |-> FALSE, URL |-> <<>>, Token |-> <<>>]

\* The loop of main, were a fatal error to end it.
ServeExitsOnFatal(fs, tracked, req, mask, http) ==
    LET Stay(h) == [fs |-> h.fs, tracked |-> h.tracked, out |-> h.out,
                    exit |-> \E i \in 1..Len(h.out) : h.out[i].Type = "error" /\ h.out[i].Fatal]
    IN  IF req.Cmd = "" THEN Stay(Handled(fs, tracked, <<fatal(<<"parse: %s">>)>>))
        ELSE IF req.Cmd = "manifest" THEN Stay(handleManifest(fs, tracked, req))
        ELSE IF req.Cmd = "pack" THEN Stay(handlePack(fs, tracked, req, mask))
        ELSE IF req.Cmd = "extract" THEN Stay(handleExtract(fs, tracked, req, mask))
        ELSE IF req.Cmd = "delete" THEN Stay(handleDelete(fs, tracked, req))
        ELSE IF req.Cmd = "transfer" THEN Stay(handleTransfer(fs, tracked, req, http))
        ELSE IF req.Cmd = "quit"
             THEN [fs |-> cleanup(fs, tracked), tracked |-> tracked, out |-> <<>>,
                   exit |-> TRUE]
        ELSE Stay(Handled(fs, tracked, <<fatal(<<"unknown command: %s">>)>>))

\* One turn of the loop of main: [fs, tracked, out, exit]
Serve(fs, tracked, req, mask, http) ==
    LET Stay(h) == [fs |-> h.fs, tracked |-> h.tracked, out |-> h.out, exit |-> FALSE]
    IN  IF req.Cmd = "" THEN Stay(Handled(fs, tracked, <<fatal(<<"parse: %s">>)>>))
        ELSE IF req.Cmd = "manifest" THEN Stay(handleManifest(fs, tracked, req))
        ELSE IF req.Cmd = "pack" THEN Stay(handlePack(fs, tracked, req, mask))
        ELSE IF req.Cmd = "extract" THEN Stay(handleExtract(fs, tracked, req, mask))
        ELSE IF req.Cmd = "delete" THEN Stay(handleDelete(fs, tracked, req))
        ELSE IF req.Cmd = "transfer" THEN Stay(handleTransfer(fs, tracked, req, http))
        ELSE IF req.Cmd = "quit"
             THEN [fs |-> cleanup(fs, tracked), tracked |-> tracked, out |-> <<>>,
                   exit |-> TRUE]
        ELSE Stay(Handled(fs, tracked, <<fatal(<<"unknown command: %s">>)>>))

\* The terminal response of each command
DoneType(cmd) ==
    CASE cmd = "manifest" -> "manifest_done"
      [] cmd = "pack" -> "pack_done"
      [] cmd = "extract" -> "extract_done"
      [] cmd = "delete" -> "delete_done"
      [] cmd = "transfer" -> "transfer_done"
      [] OTHER -> "none"

\* The read loop of Session.Manifest, Pack, Extract, Delete and Transfer on
\* the responses out, from the i-th on: it returns at the terminal response
\* of its command, with the message of the first fatal error as its error,
\* or with an error at a response of another type; past the last response it
\* waits.  [returns, ok, err, resp, last]
RECURSIVE ReadUntilDone(_, _, _)
ReadUntilDone(out, i, cmd) ==
    IF i > Len(out)
    THEN [returns |-> FALSE, ok |-> FALSE, err |-> <<>>, resp |-> Response("error"),
          last |-> i]
    ELSE IF out[i].Type = DoneType(cmd)
         THEN [returns |-> TRUE, ok |-> TRUE, err |-> <<>>, resp |-> out[i], last |-> i]
    ELSE IF out[i].Type = "error" /\ out[i].Fatal
         THEN [returns |-> TRUE, ok |-> FALSE, err |-> out[i].Message, resp |-> out[i],
               last |-> i]
    ELSE IF out[i].Type = "error" \/ (cmd = "manifest" /\ out[i].Type = "entry")
         THEN ReadUntilDone(out, i + 1, cmd)
    ELSE [returns |-> TRUE, ok |-> FALSE, err |-> <<"unexpected response: %s">>,
          resp |-> out[i], last |-> i]

\* The read loop of a Session method on a stream that ended after out:
\* readResponse fails with "unexpected EOF" where the loop would wait.
ReadToEOF(out, cmd, ended) ==
    LET Read(r) ==
            IF ~r.returns /\ ended
            THEN [r EXCEPT !.returns = TRUE, !.err = <<"unexpected EOF">>]
            ELSE r
    IN  Read(ReadUntilDone(out, 1, cmd))

-----------------------------------------------------------------------------
(* The driver: localToSpritePush (cmd/sprync/diff.go), the Session it      *)
(* opens (pkg/protocol) and the file API it writes through                  *)
(* (Client.FSWrite, served by Server.handleFSWrite).                        *)

\* strconv.ParseUint(s, 8, 32): [ok, n]
RECURSIVE ParseOctal(_, _)
ParseOctal(s, n) ==
    LET Digit(c) ==
            CASE c = "0" -> 0 [] c = "1" -> 1 [] c = "2" -> 2 [] c = "3" -> 3
              [] c = "4" -> 4 [] c = "5" -> 5 [] c = "6" -> 6 [] c = "7" -> 7
              [] OTHER -> 8
    IN  IF s = <<>> THEN [ok |-> TRUE, n |-> n]
        ELSE IF Digit(Head(s)) > 7 THEN [ok |-> FALSE, n |-> 0]
        ELSE ParseOctal(Tail(s), 8 * n + Digit(Head(s)))

\* The mode handleFSWrite opens the file with: 0644 unless the mode
\* parameter is a number in octal.
FSWriteMode(modeStr) ==
    LET Parsed(m) == IF m.ok THEN m.n ELSE 420
    IN  IF modeStr = <<>> THEN 420 ELSE Parsed(ParseOctal(modeStr, 0))

\* Server.handleFSWrite, for a server whose RootDir is /, and Client.FSWrite
\* which turns a status of 400 or above into an error: [fs, err].  body is
\* the node whose content is sent.
FSWrite(fs, path, modeStr, body, mask) ==
    LET target == Join(Slash, path)
        Copied(fs2, r) ==
            [fs |-> Put(fs2, r.path, [body EXCEPT !.mode = fs2[r.path].mode]), err |-> ""]
        Opened(w) ==
            IF w.err # "" THEN [fs |-> w.fs, err |-> "api 500"]
            ELSE Copied(w.fs, Resolve(w.fs, target, TRUE))
        Made(m) ==
            IF m.err # "" THEN [fs |-> m.fs, err |-> "api 500"]
            ELSE Opened(WriteFile(m.fs, target, FSWriteMode(modeStr), <<>>, mask))
    IN  IF path = <<>> THEN [fs |-> fs, err |-> "api 400"]
        ELSE Made(MkdirAll(fs, Dir(target), DirPerm, mask))

\* What rand.Read and hex.EncodeToString give tmpPath and remoteTmpPath
HexNames == {<<"0", "0">>, <<"f", "f">>}

\* tmpPath(ext): fmt.Sprintf("/tmp/sprync-%s%s", hex, ext)
tmpPath(hex, ext) ==
    <<"/", "t", "m", "p", "/", "s", "p", "r", "y", "n", "c", "-">> \o hex \o ext

\* remoteTmpPath(compress)
remoteTmpPath(hex, compress) ==
    tmpPath(hex, IF compress THEN <<".", "t", "a", "r", ".", "g", "z">>
                 ELSE <<".", "t", "a", "r">>)

\* embedded.SpryncdBinary as a file
SpryncdBinary == FileNode(DirPerm, <<7>>)

\* The entries collected, were the mode of a response not copied.
RECURSIVE entriesReadNoMode(_, _)
entriesReadNoMode(out, n) ==
    IF n = 0 THEN <<>>
    ELSE IF out[n].Type = "entry"
         THEN Append(entriesReadNoMode(out, n - 1),
                     [Path |-> out[n].Path, Hash |-> out[n].Hash,
                      Mode |-> 0, Size |-> out[n].Size])
    ELSE entriesReadNoMode(out, n - 1)

\* The entries Session.Manifest collected when it read the first n responses
RECURSIVE entriesRead(_, _)
entriesRead(out, n) ==
    IF n = 0 THEN <<>>
    ELSE IF out[n].Type = "entry"
         THEN Append(entriesRead(out, n - 1),
                     [Path |-> out[n].Path, Hash |-> out[n].Hash,
                      Mode |-> out[n].Mode, Size |-> out[n].Size])
    ELSE entriesRead(out, n - 1)

\* The uploads and deletes of localToSpritePush: every local path when the
\* remote directory does not exist, the diff otherwise.  o1 and o2 are the
\* orders of the range loops.
PushDiff(localM, remoteM, remoteExists, deleteOn, o1, o2) ==
    IF ~remoteExists
    THEN [Uploads |-> SortStrings(o1), Deletes |-> <<>>]
    ELSE ComputeDiff(localM, remoteM, deleteOn, o1, o2)

\* Where the push goes after the diff, were the dry run not looked at.
AfterDiffNoDryRun(diff, dryRun) ==
    IF diff.Uploads = <<>> /\ diff.Deletes = <<>> THEN "close"
    ELSE IF diff.Uploads # <<>> THEN "pack"
    ELSE "delete"

\* Where localToSpritePush goes after the diff: it returns when there is
\* nothing to do and on a dry run.
AfterDiff(diff, dryRun) ==
    IF diff.Uploads = <<>> /\ diff.Deletes = <<>> THEN "close"
    ELSE IF dryRun THEN "close"
    ELSE IF diff.Uploads # <<>> THEN "pack"
    ELSE "delete"

-----------------------------------------------------------------------------
(* The trees and inputs of the specifications *)

LocalRoot == <<"/", "l">>
RemoteRoot == <<"/", "r">>
Outside == <<"/", "o">>
TmpDir == <<"/", "t", "m", "p">>

\* File contents
DataA == <<1>>
DataB == <<2, 2>>
DataC == <<3>>
DataOld == <<9, 9, 9>>

\* The tree on the driver's host: /l/a (0644), /l/b (0666), /l/d/a (0755).
HostTree ==
    (Slash :> DirNode(DirPerm))
    @@ (LocalRoot :> DirNode(DirPerm))
    @@ (JoinChild(LocalRoot, <<"a">>) :> FileNode(420, DataA))
    @@ (JoinChild(LocalRoot, <<"b">>) :> FileNode(438, DataB))
    @@ (JoinChild(LocalRoot, <<"d">>) :> DirNode(DirPerm))
    @@ (JoinChild(LocalRoot, <<"d", "/", "a">>) :> FileNode(DirPerm, DataC))

\* What every sprite holds: /tmp, and /o/f outside the synced directory.
SpriteBase ==
    (Slash :> DirNode(DirPerm))
    @@ (TmpDir :> DirNode(PermMask))
    @@ (Outside :> DirNode(DirPerm))
    @@ (JoinChild(Outside, <<"f">>) :> FileNode(420, DataOld))

\* The states of the sprite before a sync: no /r; an empty /r; /r with the
\* files a (0600) and d/a; /r with l -> /o and b -> /o/f; /r with a and
\* b -> a; a read-only /r with a.
SpriteTrees ==
    {SpriteBase,
     SpriteBase @@ (RemoteRoot :> DirNode(DirPerm)),
     SpriteBase @@ (RemoteRoot :> DirNode(DirPerm))
         @@ (JoinChild(RemoteRoot, <<"a">>) :> FileNode(384, DataOld))
         @@ (JoinChild(RemoteRoot, <<"d">>) :> DirNode(DirPerm))
         @@ (JoinChild(RemoteRoot, <<"d", "/", "a">>) :> FileNode(DirPerm, DataC)),
     SpriteBase @@ (RemoteRoot :> DirNode(DirPerm))
         @@ (JoinChild(RemoteRoot, <<"l">>) :> LinkNode(Outside))
         @@ (JoinChild(RemoteRoot, <<"b">>) :> LinkNode(JoinChild(Outside, <<"f">>))),
     SpriteBase @@ (RemoteRoot :> DirNode(DirPerm))
         @@ (JoinChild(RemoteRoot, <<"a">>) :> FileNode(420, DataA))
         @@ (JoinChild(RemoteRoot, <<"b">>) :> LinkNode(JoinChild(RemoteRoot, <<"a">>))),
     SpriteBase @@ (RemoteRoot :> DirNode(365))
         @@ (JoinChild(RemoteRoot, <<"a">>) :> FileNode(420, DataOld))}

\* The umasks of the extracting process: none, and the usual 022.
Umasks == {0, 18}

\* Sequences of at most n elements of S
SeqsUpTo(S, n) ==
    UNION {[1..k -> S] : k \in 0..n}

-----------------------------------------------------------------------------
(* The tar specification: PackTar on the host tree, then UnpackTar of the   *)
(* packed stream into the sprite tree; or UnpackTar of any archive within   *)
(* the bounds.                                                              *)

\* The most paths given to PackTar
MaxPackPaths == 2
\* The most headers of an archive given to UnpackTar
MaxHeaders == 2

\* Paths given to PackTar: files of the tree, a path with a `..` inside, a
\* directory, a missing file, and paths the gates refuse.
PackPathInputs ==
    {<<"a">>, <<"b">>, <<"d", "/", "a">>, <<"d", "/", ".", ".", "/", "a">>,
     <<"d">>, <<"x">>,
     <<>>, <<".">>, <<"a", NUL>>, <<"/", "l", "/", "a">>,
     <<".", ".", "/", "l", "/", "a">>,
     <<"d", "/", ".", ".", "/", ".", ".", "/", "l", "/", "a">>}

\* Headers of the archives given to UnpackTar: regular files and directories
\* whose names stay under the root, pass through the symbolic links of the
\* sprite trees, or leave the root; and a header of another type.
HeaderInputs ==
    {Header("reg", n, 420, DataB) :
        n \in {<<"a">>, <<"b">>, <<"d", "/", "a">>, <<"l", "/", "x">>,
               <<".", ".", "/", "o", "/", "x">>, <<"/", "o", "/", "x">>,
               <<"d", "/", ".", ".", "/", ".", ".", "/", "o", "/", "x">>,
               <<".", ".", "a">>, <<".">>}}
    \cup {Header("reg", <<"a">>, 2541, DataC)}
    \cup {Header("dir", n, DirPerm, <<>>) :
        n \in {<<"d", "/">>, <<"l", "/", "e", "/">>,
               <<".", ".", "/", "e", "/">>, <<"/", "e", "/">>}}
    \cup {Header("link", <<"a">>, PermMask, <<>>)}

NoPack == [set |-> FALSE, dir |-> <<>>, filePaths |-> <<>>, compress |-> FALSE]
NotPacked == [done |-> FALSE, tar |-> EmptyTar, count |-> 0, err |-> ""]
NoArchive == [set |-> FALSE, tar |-> EmptyTar]
NoUnpack == [dir |-> <<>>, compress |-> FALSE]
NotUnpacked == [done |-> FALSE, count |-> 0, err |-> ""]

TarIdle ==
    /\ hostFs = HostTree
    /\ spriteFs = SpriteBase
    /\ umask = 0
    /\ packArgs = NoPack
    /\ packed = NotPacked
    /\ archive = NoArchive
    /\ unpackArgs = NoUnpack
    /\ unpacked = NotUnpacked
    /\ fsBefore = SpriteBase

NoRequest == Request("none")

AgentIdle ==
    /\ trackedFiles = <<>>
    /\ request = NoRequest
    /\ responses = <<>>
    /\ served = 0
    /\ running = TRUE
    /\ fatalRun = 0

NoPush == [localDir |-> <<>>, remoteDir |-> <<>>, excludes |-> <<>>,
           compress |-> FALSE, deleteOn |-> FALSE, dryRun |-> FALSE]

NoSession == [remoteBin |-> <<>>, dest |-> <<>>]

PushIdle ==
    /\ pushArgs = NoPush
    /\ pc = "idle"
    /\ exists = FALSE
    /\ pushErr = <<>>
    /\ session = NoSession

\* No session with a source sprite: [remoteBin, tracked, running, request,
\* responses]
NoPeer ==
    [remoteBin |-> <<>>, tracked |-> <<>>, running |-> FALSE, request |-> NoRequest,
     responses |-> <<>>]

PeerIdle ==
    /\ srcFs = SpriteBase
    /\ srcSession = NoPeer

\* No transfer is under way.
XferIdle ==
    /\ packer = [pc |-> "none"]
    /\ upload = [body |-> "none"]
    /\ handler = [pc |-> "none"]

\* No channel is open.
ConnIdle ==
    /\ wire = <<>>
    /\ toAgent = <<>>
    /\ agentProc = [pc |-> "none"]
    /\ wsc = [pump |-> "none"]
    /\ calls = <<>>
    /\ mu = 0
    /\ sess = [pc |-> "none"]

\* No walk is under way.
WalkIdle ==
    /\ walkArgs = [dir |-> <<>>]
    /\ jobs = <<>>
    /\ jobCh = [buf |-> <<>>]
    /\ resultCh = [buf |-> <<>>]
    /\ wg = 0
    /\ hashers = <<>>
    /\ hashes = <<>>
    /\ walker = [pc |-> "none"]

\* No frame is under way.
FramesIdle ==
    /\ wsIn = <<>>
    /\ wsRead = <<>>
    /\ wsOut = <<>>
    /\ readPump = [pc |-> "none"]
    /\ stdoutBytes = <<>>
    /\ stderrBytes = <<>>
    /\ exitCh = [closed |-> FALSE]

NoMatcher == [made |-> FALSE, patterns |-> <<>>]
NotMatched == [called |-> FALSE, relPath |-> <<>>, result |-> FALSE]

\* No matcher was made.
MatchIdle ==
    /\ matcher = NoMatcher
    /\ matched = NotMatched

NoManifestArgs == [dir |-> <<>>, excludes |-> <<>>]
NotWalked == [done |-> FALSE, err |-> "", manifest |-> <<>>]
NotListed == [done |-> FALSE, err |-> <<>>, exists |-> FALSE, entries |-> <<>>]

ManifestIdle ==
    /\ manifestArgs = NoManifestArgs
    /\ walked = NotWalked
    /\ listed = NotListed

DiffIdle ==
    /\ local = <<>>
    /\ remote = <<>>
    /\ deleteEnabled = FALSE
    /\ result = [Uploads |-> <<>>, Deletes |-> <<>>]

TarInit ==
    /\ XferIdle
    /\ ConnIdle
    /\ MatchIdle
    /\ FramesIdle
    /\ WalkIdle
    /\ PeerIdle
    /\ ManifestIdle
    /\ DiffIdle
    /\ AgentIdle
    /\ PushIdle
    /\ hostFs = HostTree
    /\ spriteFs \in SpriteTrees
    /\ fsBefore = spriteFs
    /\ umask \in Umasks
    /\ packed = NotPacked
    /\ unpackArgs = NoUnpack
    /\ unpacked = NotUnpacked
    /\ \/ /\ packArgs \in {[set |-> TRUE, dir |-> LocalRoot, filePaths |-> ps,
                            compress |-> c] :
                              ps \in SeqsUpTo(PackPathInputs, MaxPackPaths),
                              c \in BOOLEAN}
          /\ archive = NoArchive
       \/ /\ packArgs = NoPack
          /\ archive \in {[set |-> TRUE, tar |-> Stream("tar", TRUE, hs)] :
                             hs \in SeqsUpTo(HeaderInputs, MaxHeaders)}

\* PackTar(dir, filePaths, w, compress) on the host.  Only a stream whose
\* PackTar returned no error is handed on (diff.go:341-346, main.go:250-258).
CallPackTar ==
    /\ packArgs.set
    /\ ~packed.done
    /\ LET Done(r) ==
               /\ packed' = [done |-> TRUE, tar |-> r.tar, count |-> r.count,
                             err |-> r.err]
               /\ archive' = IF r.err = "" THEN [set |-> TRUE, tar |-> r.tar]
                             ELSE archive
       IN  Done(PackTar(hostFs, packArgs.dir, packArgs.filePaths, packArgs.compress))
    /\ UNCHANGED <<hostFs, spriteFs, umask, packArgs, unpackArgs, unpacked, fsBefore,
                   diffVars, agentVars, pushVars>>
    /\ UNCHANGED manifestVars
    /\ UNCHANGED peerVars
    /\ UNCHANGED <<xferVars, connVars, walkVars, frameVars, matchVars>>

\* UnpackTar(r, dir, compress) on the sprite
CallUnpackTar ==
    /\ archive.set
    /\ ~unpacked.done
    /\ \E compress \in BOOLEAN :
           LET Done(r) ==
                   /\ unpackArgs' = [dir |-> RemoteRoot, compress |-> compress]
                   /\ unpacked' = [done |-> TRUE, count |-> r.count, err |-> r.err]
                   /\ spriteFs' = r.fs
           IN  Done(UnpackTar(spriteFs, archive.tar, RemoteRoot, compress, umask))
    /\ fsBefore' = spriteFs
    /\ UNCHANGED <<hostFs, umask, packArgs, packed, archive, diffVars, agentVars,
                   pushVars>>
    /\ UNCHANGED manifestVars
    /\ UNCHANGED peerVars
    /\ UNCHANGED <<xferVars, connVars, walkVars, frameVars, matchVars>>

TarNext ==
    \/ CallPackTar
    \/ CallUnpackTar

SpecTar ==
    TarInit /\ [][TarNext]_vars

-----------------------------------------------------------------------------
(* The agent specification: the agent serves the requests of one session,   *)
(* one at a time; the driver reads the responses to a request before it     *)
(* sends the next.                                                          *)

\* The most requests of a session
MaxRequests == 2
\* The most paths of a request
MaxReqPaths == 2

\* The dir of a request: none, the synced directory, a file in it
AgentDirs ==
    {<<>>, RemoteRoot, JoinChild(RemoteRoot, <<"a">>)}

\* The paths of a request: a file, a directory, a path through a symbolic
\* link, and one path or more for each way to fail the checks
AgentPathInputs ==
    {<<"a">>, <<"d">>, <<"l", "/", "f">>,
     <<>>, <<"a", NUL>>, <<"/", "o", "/", "f">>, <<".">>,
     <<".", ".", "/", "o", "/", "f">>, <<".", ".", "/", NUL>>}

\* The dest of a pack and the src of an extract
ScratchPaths ==
    {<<>>, JoinChild(TmpDir, <<"t">>), JoinChild(Outside, <<"t">>),
     <<"/", "t", "m", "p", "/", ".", ".", "/", "o", "/", "f">>}

\* The URL a transfer is given for the scratch file of the peer
PeerURL == <<"u">> \o PathParam \o JoinChild(TmpDir, <<"t">>)

\* The url and token of a transfer: each missing, the URL malformed, both
\* well formed
TransferTargets ==
    {<<<<>>, <<"k">>>>, <<BadURL, <<"k">>>>, <<PeerURL, <<>>>>, <<PeerURL, <<"k">>>>}

\* The exclude patterns of a manifest
ExcludeInputs ==
    {<<>>, <<<<"d">>>>, <<<<"*", "*", "/", "a">>>>}

PathLists == SeqsUpTo(AgentPathInputs, MaxReqPaths)

Requests ==
    {[Request("pack") EXCEPT !.Dir = d, !.Paths = ps, !.Dest = t, !.Compress = c] :
        d \in AgentDirs, ps \in PathLists, t \in ScratchPaths, c \in BOOLEAN}
    \cup {[Request("delete") EXCEPT !.Dir = d, !.Paths = ps] :
        d \in AgentDirs, ps \in PathLists}
    \cup {[Request("transfer") EXCEPT !.Dir = d, !.Paths = ps, !.URL = u[1],
                                      !.Token = u[2], !.Compress = c] :
        d \in AgentDirs, ps \in PathLists, u \in TransferTargets, c \in BOOLEAN}
    \cup {[Request("extract") EXCEPT !.Dir = d, !.Src = t, !.Compress = c] :
        d \in AgentDirs, t \in ScratchPaths, c \in BOOLEAN}
    \cup {[Request("manifest") EXCEPT !.Dir = d, !.Excludes = x] :
        d \in AgentDirs, x \in ExcludeInputs}
    \cup {Request("quit"), Request("bogus"), Request("")}

AgentInit ==
    /\ XferIdle
    /\ ConnIdle
    /\ MatchIdle
    /\ FramesIdle
    /\ WalkIdle
    /\ PeerIdle
    /\ ManifestIdle
    /\ DiffIdle
    /\ PushIdle
    /\ hostFs = HostTree
    /\ packArgs = NoPack
    /\ packed = NotPacked
    /\ archive = NoArchive
    /\ unpackArgs = NoUnpack
    /\ unpacked = NotUnpacked
    /\ spriteFs \in SpriteTrees
    /\ fsBefore = spriteFs
    /\ umask \in Umasks
    /\ AgentIdle

\* The driver writes a request line and the agent's loop serves it:
\* scanner.Scan, ParseRequest, the handler.
AgentServe ==
    /\ running
    /\ request = NoRequest
    /\ served < MaxRequests
    /\ \E req \in Requests, http \in HttpOutcomes :
           LET Served(r) ==
                   /\ request' = req
                   /\ spriteFs' = r.fs
                   /\ trackedFiles' = r.tracked
                   /\ responses' = r.out
                   /\ running' = ~r.exit
           IN  Served(Serve(spriteFs, trackedFiles, req, umask, http))
    /\ fsBefore' = spriteFs
    /\ served' = served + 1
    /\ UNCHANGED <<fatalRun, hostFs, umask, packArgs, packed, archive, unpackArgs,
                   unpacked, diffVars, pushVars>>
    /\ UNCHANGED manifestVars
    /\ UNCHANGED peerVars
    /\ UNCHANGED <<xferVars, connVars, walkVars, frameVars, matchVars>>

\* The Session method that sent the request returns: the responses are read,
\* and the result is an error when the agent answered with a fatal error.
\* Without a terminal response or a fatal error the method stays in
\* readResponse and the agent in its handler.
SessionReturn ==
    /\ request # NoRequest
    /\ request.Cmd = "quit" \/ ReadUntilDone(responses, 1, request.Cmd).returns
    /\ request' = NoRequest
    /\ responses' = <<>>
    /\ LET Read(r) ==
               fatalRun' = IF r.returns /\ ~r.ok /\ r.resp.Fatal THEN fatalRun + 1 ELSE 0
       IN  Read(ReadUntilDone(responses, 1, request.Cmd))
    /\ UNCHANGED <<trackedFiles, served, running, tarVars, diffVars, pushVars>>
    /\ UNCHANGED manifestVars
    /\ UNCHANGED peerVars
    /\ UNCHANGED <<xferVars, connVars, walkVars, frameVars, matchVars>>

\* The agent's input ends: the loop of main is left, cleanup() runs.
AgentStdinClosed ==
    /\ running
    /\ request = NoRequest
    /\ running' = FALSE
    /\ fsBefore' = spriteFs
    /\ spriteFs' = cleanup(spriteFs, trackedFiles)
    /\ UNCHANGED <<trackedFiles, request, responses, served, fatalRun, hostFs, umask,
                   packArgs, packed, archive, unpackArgs, unpacked, diffVars, pushVars>>
    /\ UNCHANGED manifestVars
    /\ UNCHANGED peerVars
    /\ UNCHANGED <<xferVars, connVars, walkVars, frameVars, matchVars>>

AgentNext ==
    \/ AgentServe
    \/ SessionReturn
    \/ AgentStdinClosed

SpecAgent ==
    AgentInit /\ [][AgentNext]_vars

-----------------------------------------------------------------------------
(* The push specification: one local-to-sprite push, step by step, with no  *)
(* other process changing either tree.                                      *)

\* Local trees: the host tree; a single file; a file that cannot be read.
HostTrees ==
    {HostTree,
     (Slash :> DirNode(DirPerm))
         @@ (LocalRoot :> DirNode(DirPerm))
         @@ (JoinChild(LocalRoot, <<"a">>) :> FileNode(420, DataA)),
     (Slash :> DirNode(DirPerm))
         @@ (LocalRoot :> DirNode(DirPerm))
         @@ (JoinChild(LocalRoot, <<"a">>) :> FileNode(0, DataA))}

\* The sprite before a push: the sprite trees; /r with what the host tree
\* holds; /r with the file a of the host and a file x of its own; the same in
\* a read-only /r; a regular file in the place of /r.
PushSpriteTrees ==
    SpriteTrees
    \cup {SpriteBase @@ (RemoteRoot :> DirNode(DirPerm))
              @@ (JoinChild(RemoteRoot, <<"a">>) :> FileNode(420, DataA))
              @@ (JoinChild(RemoteRoot, <<"b">>) :> FileNode(438, DataB))
              @@ (JoinChild(RemoteRoot, <<"d">>) :> DirNode(DirPerm))
              @@ (JoinChild(RemoteRoot, <<"d", "/", "a">>) :> FileNode(DirPerm, DataC)),
          SpriteBase @@ (RemoteRoot :> DirNode(DirPerm))
              @@ (JoinChild(RemoteRoot, <<"a">>) :> FileNode(420, DataA))
              @@ (JoinChild(RemoteRoot, <<"x">>) :> FileNode(420, DataOld)),
          SpriteBase @@ (RemoteRoot :> DirNode(365))
              @@ (JoinChild(RemoteRoot, <<"a">>) :> FileNode(420, DataA))
              @@ (JoinChild(RemoteRoot, <<"x">>) :> FileNode(420, DataOld)),
          SpriteBase @@ (RemoteRoot :> FileNode(420, DataOld))}

\* The --exclude flags of a push
PushExcludes ==
    {<<>>, <<<<"d">>>>}

PushInit ==
    /\ XferIdle
    /\ ConnIdle
    /\ MatchIdle
    /\ FramesIdle
    /\ WalkIdle
    /\ PeerIdle
    /\ ManifestIdle
    /\ DiffIdle
    /\ hostFs \in HostTrees
    /\ spriteFs \in PushSpriteTrees
    /\ fsBefore = spriteFs
    /\ umask \in Umasks
    /\ packArgs = NoPack
    /\ packed = NotPacked
    /\ archive = NoArchive
    /\ unpackArgs = NoUnpack
    /\ unpacked = NotUnpacked
    /\ trackedFiles = <<>>
    /\ request = NoRequest
    /\ responses = <<>>
    /\ served = 0
    /\ running = FALSE
    /\ fatalRun = 0
    /\ pushArgs \in {[localDir |-> LocalRoot, remoteDir |-> RemoteRoot, excludes |-> x,
                      compress |-> c, deleteOn |-> d, dryRun |-> n] :
                        x \in PushExcludes, c \in BOOLEAN, d \in BOOLEAN, n \in BOOLEAN}
    /\ pc = "start"
    /\ exists = FALSE
    /\ pushErr = <<>>
    /\ session = NoSession

\* openSession: OpenSession writes the agent's binary to the sprite, starts
\* it and reads its ready response.
PushOpenSession ==
    /\ pc = "start"
    /\ \E hex \in HexNames :
           LET Written(bin, w) ==
                   /\ spriteFs' = w.fs
                   /\ IF w.err # ""
                      THEN /\ pushErr' = <<"open session: %w", w.err>>
                           /\ pc' = "returned"
                           /\ UNCHANGED <<session, running>>
                      ELSE /\ session' = [session EXCEPT !.remoteBin = bin]
                           /\ running' = TRUE
                           /\ pc' = "manifest"
                           /\ pushErr' = pushErr
               Bin == tmpPath(hex, <<"-", "s", "p", "r", "y", "n", "c", "d">>)
           IN  Written(Bin, FSWrite(spriteFs, Bin, <<"0", "7", "5", "5">>,
                                    SpryncdBinary, umask))
    /\ UNCHANGED <<hostFs, umask, packArgs, packed, archive, unpackArgs, unpacked,
                   fsBefore, trackedFiles, request, responses, served, fatalRun,
                   diffVars, pushArgs, exists>>
    /\ UNCHANGED manifestVars
    /\ UNCHANGED peerVars
    /\ UNCHANGED <<xferVars, connVars, walkVars, frameVars, matchVars>>

\* sess.Manifest(remoteDir, excludes) and entriesToManifest; the stream of
\* responses may end before the agent's last response arrives.
PushManifest ==
    /\ pc = "manifest"
    /\ LET Read(req, h, r) ==
               /\ request' = req
               /\ responses' = h.out
               /\ IF ~r.ok
                  THEN /\ pushErr' = <<"remote manifest: %w">> \o r.err
                       /\ pc' = "close"
                       /\ listed' = [done |-> TRUE, err |-> r.err, exists |-> FALSE,
                                     entries |-> <<>>]
                       /\ UNCHANGED <<remote, exists>>
                  ELSE /\ remote' = EntriesToManifest(entriesRead(h.out, r.last))
                       /\ exists' = r.resp.Exists
                       /\ listed' = [done |-> TRUE, err |-> <<>>, exists |-> r.resp.Exists,
                                     entries |-> entriesRead(h.out, r.last)]
                       /\ pc' = "walk"
                       /\ pushErr' = pushErr
           Sent(req, h) ==
               \E cut \in 0..Len(h.out) :
                   Read(req, h, ReadToEOF(SubSeq(h.out, 1, cut), "manifest",
                                          cut < Len(h.out)))
           Req == [Request("manifest") EXCEPT !.Dir = pushArgs.remoteDir,
                                              !.Excludes = pushArgs.excludes]
       IN  Sent(Req, handleManifest(spriteFs, trackedFiles, Req))
    /\ served' = served + 1
    /\ UNCHANGED <<tarVars, trackedFiles, running, fatalRun, local, deleteEnabled,
                   result, pushArgs, session>>
    /\ UNCHANGED <<manifestArgs, walked>>
    /\ UNCHANGED peerVars
    /\ UNCHANGED <<xferVars, connVars, walkVars, frameVars, matchVars>>

\* pack.WalkLocal(localDir, excludes), the uploads and deletes, and the two
\* early returns.  Another process may replace one queued file while the
\* walk runs: the file is gone when it is hashed and back afterwards.
PushWalkLocal ==
    /\ pc = "walk"
    /\ LET Diffed(d) ==
               /\ result' = d
               /\ pc' = AfterDiff(d, pushArgs.dryRun)
           Walked(w) ==
               /\ walked' = [done |-> TRUE, err |-> w.err, manifest |-> w.manifest]
               /\ IF w.err # ""
                  THEN /\ pushErr' = <<"walk local: %w", w.err>>
                       /\ pc' = "close"
                       /\ UNCHANGED <<local, deleteEnabled, result>>
                  ELSE /\ local' = w.manifest
                       /\ deleteEnabled' = pushArgs.deleteOn
                       /\ pushErr' = pushErr
                       /\ \E o1 \in RangeOrders(DOMAIN w.manifest),
                             o2 \in RangeOrders(DOMAIN remote) :
                              Diffed(PushDiff(w.manifest, remote, exists,
                                              pushArgs.deleteOn, o1, o2))
           Raced(files) == {{}} \cup {{f} : f \in files}
       IN  \E gone \in Raced(queuedFiles(hostFs, pushArgs.localDir, pushArgs.excludes)) :
               Walked(WalkLocalThen(hostFs, Without(hostFs, gone),
                                    pushArgs.localDir, pushArgs.excludes))
    /\ UNCHANGED <<tarVars, agentVars, remote, pushArgs, exists, session>>
    /\ UNCHANGED <<manifestArgs, listed>>
    /\ UNCHANGED peerVars
    /\ UNCHANGED <<xferVars, connVars, walkVars, frameVars, matchVars>>

\* pack.PackTar(localDir, uploads, &buf, compress)
PushPack ==
    /\ pc = "pack"
    /\ LET Done(p) ==
               /\ packed' = [done |-> TRUE, tar |-> p.tar, count |-> p.count,
                             err |-> p.err]
               /\ IF p.err # ""
                  THEN pushErr' = <<"pack: %w", p.err>> /\ pc' = "close"
                  ELSE pushErr' = pushErr /\ pc' = "fswrite"
       IN  Done(PackTar(hostFs, pushArgs.localDir, result.Uploads, pushArgs.compress))
    /\ packArgs' = [set |-> TRUE, dir |-> pushArgs.localDir,
                    filePaths |-> result.Uploads, compress |-> pushArgs.compress]
    /\ UNCHANGED <<hostFs, spriteFs, umask, archive, unpackArgs, unpacked, fsBefore,
                   agentVars, diffVars, pushArgs, exists, session>>
    /\ UNCHANGED manifestVars
    /\ UNCHANGED peerVars
    /\ UNCHANGED <<xferVars, connVars, walkVars, frameVars, matchVars>>

\* client.FSWrite(ctx, sprite, remoteTmpPath(compress), "", false, &buf)
PushFSWrite ==
    /\ pc = "fswrite"
    /\ \E hex \in HexNames :
           LET Written(dest, w) ==
                   /\ spriteFs' = w.fs
                   /\ IF w.err # ""
                      THEN /\ pushErr' = <<"upload: %w", w.err>>
                           /\ pc' = "close"
                           /\ session' = session
                      ELSE /\ session' = [session EXCEPT !.dest = dest]
                           /\ pc' = "extract"
                           /\ pushErr' = pushErr
               Dest == remoteTmpPath(hex, pushArgs.compress)
           IN  Written(Dest, FSWrite(spriteFs, Dest, <<>>, TarNode(0, packed.tar),
                                     umask))
    /\ UNCHANGED <<hostFs, umask, packArgs, packed, archive, unpackArgs, unpacked,
                   fsBefore, agentVars, diffVars, pushArgs, exists>>
    /\ UNCHANGED manifestVars
    /\ UNCHANGED peerVars
    /\ UNCHANGED <<xferVars, connVars, walkVars, frameVars, matchVars>>

\* Where the push would go after the extract, were its error dropped.
AfterExtractErrorDropped(ok, deletes) ==
    IF deletes # <<>> THEN "delete" ELSE "close"

\* Where localToSpritePush goes after sess.Extract: it returns on an error,
\* and asks for the delete when there are deletes.
AfterExtract(ok, deletes) ==
    IF ~ok THEN "close"
    ELSE IF deletes # <<>> THEN "delete" ELSE "close"

\* sess.Extract(remoteDir, dest, compress)
PushExtract ==
    /\ pc = "extract"
    /\ LET Read(req, h, r) ==
               /\ request' = req
               /\ responses' = h.out
               /\ spriteFs' = h.fs
               /\ trackedFiles' = h.tracked
               /\ pushErr' = IF ~r.ok THEN <<"extract: %w">> \o r.err ELSE pushErr
               /\ pc' = AfterExtract(r.ok, result.Deletes)
           Sent(req, h) == Read(req, h, ReadUntilDone(h.out, 1, "extract"))
           Req == [Request("extract") EXCEPT !.Dir = pushArgs.remoteDir,
                                             !.Src = session.dest,
                                             !.Compress = pushArgs.compress]
       IN  Sent(Req, handleExtract(spriteFs, trackedFiles, Req, umask))
    /\ served' = served + 1
    /\ UNCHANGED <<hostFs, umask, packArgs, packed, archive, unpackArgs, unpacked,
                   fsBefore, running, fatalRun, diffVars, pushArgs, exists, session>>
    /\ UNCHANGED manifestVars
    /\ UNCHANGED peerVars
    /\ UNCHANGED <<xferVars, connVars, walkVars, frameVars, matchVars>>

\* sess.Delete(remoteDir, deletes)
PushDelete ==
    /\ pc = "delete"
    /\ LET Read(req, h, r) ==
               /\ request' = req
               /\ responses' = h.out
               /\ spriteFs' = h.fs
               /\ trackedFiles' = h.tracked
               /\ IF ~r.ok
                  THEN pushErr' = <<"delete: %w">> \o r.err
                  ELSE pushErr' = pushErr
           Sent(req, h) == Read(req, h, ReadUntilDone(h.out, 1, "delete"))
           Req == [Request("delete") EXCEPT !.Dir = pushArgs.remoteDir,
                                            !.Paths = result.Deletes]
       IN  Sent(Req, handleDelete(spriteFs, trackedFiles, Req))
    /\ pc' = "close"
    /\ served' = served + 1
    /\ UNCHANGED <<hostFs, umask, packArgs, packed, archive, unpackArgs, unpacked,
                   fsBefore, running, fatalRun, diffVars, pushArgs, exists, session>>
    /\ UNCHANGED manifestVars
    /\ UNCHANGED peerVars
    /\ UNCHANGED <<xferVars, connVars, walkVars, frameVars, matchVars>>

\* The deferred sess.Close(ctx): the agent gets quit and runs cleanup(), then
\* `rm -f remoteBin` is run on the sprite.
PushClose ==
    /\ pc = "close"
    /\ spriteFs' = closeSession(spriteFs, trackedFiles, session.remoteBin)
    /\ trackedFiles' = trackedFiles
    /\ running' = FALSE
    /\ request' = Request("quit")
    /\ responses' = <<>>
    /\ served' = served + 1
    /\ pc' = "returned"
    /\ UNCHANGED <<hostFs, umask, packArgs, packed, archive, unpackArgs, unpacked,
                   fsBefore, fatalRun, diffVars, pushArgs, exists, pushErr, session>>
    /\ UNCHANGED manifestVars
    /\ UNCHANGED peerVars
    /\ UNCHANGED <<xferVars, connVars, walkVars, frameVars, matchVars>>

PushNext ==
    \/ PushOpenSession
    \/ PushManifest
    \/ PushWalkLocal
    \/ PushPack
    \/ PushFSWrite
    \/ PushExtract
    \/ PushDelete
    \/ PushClose

SpecPush ==
    PushInit /\ [][PushNext]_vars

-----------------------------------------------------------------------------
(* The diff specification: ComputeDiff applied to every pair of manifests   *)
(* within the bounds.                                                       *)

\* The most entries a manifest of the diff specification holds.
MaxEntries == 2

\* Paths whose byte order differs from their order by segments:
\* "a" < "a.b" < "a/b" < "b".
DiffPaths ==
    {<<"a">>, <<"a", ".", "b">>, <<"a", "/", "b">>, <<"b">>}

\* (hash, mode, size) of the entries: equal hashes with different mode and
\* size, and different hashes with equal mode and size.
EntryValues ==
    {[Hash |-> "h1", Mode |-> 420, Size |-> 1],
     [Hash |-> "h1", Mode |-> 493, Size |-> 2],
     [Hash |-> "h2", Mode |-> 420, Size |-> 1],
     [Hash |-> "h2", Mode |-> 420, Size |-> 2]}

\* pack.ManifestEntry
ManifestEntry(path, v) ==
    [Path |-> path, Hash |-> v.Hash, Mode |-> v.Mode, Size |-> v.Size]

\* pack.Manifest: a map from path to the entry of that path.
Manifests ==
    UNION {{[p \in keys |-> ManifestEntry(p, f[p])] : f \in [keys -> EntryValues]} :
           keys \in {k \in SUBSET DiffPaths : Cardinality(k) <= MaxEntries}}

\* No call of ComputeDiff returns this: "-" is no path of a manifest.
NoResult == [Uploads |-> <<<<"-">>>>, Deletes |-> <<<<"-">>>>]

DiffInit ==
    /\ XferIdle
    /\ ConnIdle
    /\ MatchIdle
    /\ FramesIdle
    /\ WalkIdle
    /\ PeerIdle
    /\ ManifestIdle
    /\ local \in Manifests
    /\ remote \in Manifests
    /\ deleteEnabled \in BOOLEAN
    /\ result = NoResult
    /\ TarIdle
    /\ AgentIdle
    /\ PushIdle

CallComputeDiff ==
    /\ result = NoResult
    /\ \E o1 \in RangeOrders(DOMAIN local), o2 \in RangeOrders(DOMAIN remote) :
           result' = ComputeDiff(local, remote, deleteEnabled, o1, o2)
    /\ UNCHANGED <<local, remote, deleteEnabled, tarVars, agentVars, pushVars>>
    /\ UNCHANGED manifestVars
    /\ UNCHANGED peerVars
    /\ UNCHANGED <<xferVars, connVars, walkVars, frameVars, matchVars>>

DiffNext ==
    CallComputeDiff

SpecDiff ==
    DiffInit /\ [][DiffNext]_vars

-----------------------------------------------------------------------------
(* The other two directions: pullAction (cmd/sprync/pull.go) and            *)
(* spriteToSpritePush (cmd/sprync/diff.go).  In a pull, local is the        *)
(* manifest WalkLocal gave and remote the one the agent gave, and the diff  *)
(* is ComputeDiff(remote, local); in a sprite-to-sprite push, local is the  *)
(* manifest of the source sprite and pushArgs.localDir its directory.       *)

\* openSession: OpenSession writes the agent's binary to the sprite and
\* starts it.  [fs, err, bin]
openSession(fs, hex, mask) ==
    LET Written(bin, w) == [fs |-> w.fs, err |-> w.err, bin |-> bin]
        Bin == tmpPath(hex, <<"-", "s", "p", "r", "y", "n", "c", "d">>)
    IN  Written(Bin, FSWrite(fs, Bin, <<"0", "7", "5", "5">>, SpryncdBinary, mask))

\* Client.FSRead served by Server.handleFSRead: [err, body]
FSRead(fs, path) ==
    LET Opened(f) ==
            IF f.err # "" THEN [err |-> "api 404", body |-> EmptyTar]
            ELSE [err |-> "", body |-> StreamOf(f.node)]
    IN  IF path = <<>> THEN [err |-> "api 400", body |-> EmptyTar]
        ELSE Opened(ReadFile(fs, Join(Slash, path)))

\* The os.RemoveAll loop of pullAction: a failure is logged and the loop
\* goes on.
RECURSIVE removeLocal(_, _, _)
removeLocal(fs, dir, pathList) ==
    IF pathList = <<>> THEN fs
    ELSE removeLocal(RemoveAll(fs, Join(dir, Head(pathList))).fs, dir, Tail(pathList))

\* Where pullAction goes after the diff
PullAfterDiff(diff, dryRun) ==
    IF diff.Uploads = <<>> /\ diff.Deletes = <<>> THEN "pull.close"
    ELSE IF dryRun THEN "pull.close"
    ELSE IF diff.Uploads # <<>> THEN "pull.pack"
    ELSE "pull.remove"

\* openSession of pullAction
PullOpenSession ==
    /\ pc = "pull.start"
    /\ \E hex \in HexNames :
           LET Opened(o) ==
                   /\ spriteFs' = o.fs
                   /\ IF o.err # ""
                      THEN /\ pushErr' = <<"open session: %w", o.err>>
                           /\ pc' = "pull.returned"
                           /\ UNCHANGED <<session, running>>
                      ELSE /\ session' = [session EXCEPT !.remoteBin = o.bin]
                           /\ running' = TRUE
                           /\ pc' = "pull.manifest"
                           /\ pushErr' = pushErr
           IN  Opened(openSession(spriteFs, hex, umask))
    /\ UNCHANGED <<diffVars, hostFs, umask, packArgs, packed, archive, unpackArgs,
                   unpacked, fsBefore, trackedFiles, request, responses, served,
                   fatalRun, pushArgs, exists, manifestVars, peerVars>>
    /\ UNCHANGED <<xferVars, connVars, walkVars, frameVars, matchVars>>

\* sess.Manifest(remoteDir, excludes); a remote directory that does not
\* exist is an error.  The stream of responses may end before the agent's
\* last response arrives.
PullManifest ==
    /\ pc = "pull.manifest"
    /\ LET Read(req, h, r) ==
               /\ request' = req
               /\ responses' = h.out
               /\ listed' = IF ~r.ok
                            THEN [done |-> TRUE, err |-> r.err, exists |-> FALSE,
                                  entries |-> <<>>]
                            ELSE [done |-> TRUE, err |-> <<>>, exists |-> r.resp.Exists,
                                  entries |-> entriesRead(h.out, r.last)]
               /\ IF ~r.ok
                  THEN /\ pushErr' = <<"remote manifest: %w">> \o r.err
                       /\ pc' = "pull.close"
                       /\ UNCHANGED <<remote, exists>>
                  ELSE IF ~r.resp.Exists
                  THEN /\ pushErr' = <<"remote directory %s does not exist">>
                       /\ pc' = "pull.close"
                       /\ UNCHANGED <<remote, exists>>
                  ELSE /\ remote' = EntriesToManifest(entriesRead(h.out, r.last))
                       /\ exists' = TRUE
                       /\ pc' = "pull.walk"
                       /\ pushErr' = pushErr
           Sent(req, h) ==
               \E cut \in 0..Len(h.out) :
                   Read(req, h, ReadToEOF(SubSeq(h.out, 1, cut), "manifest",
                                          cut < Len(h.out)))
           Req == [Request("manifest") EXCEPT !.Dir = pushArgs.remoteDir,
                                              !.Excludes = pushArgs.excludes]
       IN  Sent(Req, handleManifest(spriteFs, trackedFiles, Req))
    /\ served' = served + 1
    /\ UNCHANGED <<tarVars, trackedFiles, running, fatalRun, local, deleteEnabled,
                   result, pushArgs, session, manifestArgs, walked, peerVars>>
    /\ UNCHANGED <<xferVars, connVars, walkVars, frameVars, matchVars>>

\* pack.WalkLocal(localDir, excludes), where an error that os.IsNotExist
\* accepts is an empty manifest; ComputeDiff(remoteM, localM, deleteOn) and
\* the two early returns.  Another process may replace one queued file
\* while the walk runs: the file is gone when it is hashed and back
\* afterwards.
PullWalkLocal ==
    /\ pc = "pull.walk"
    /\ LET Diffed(d) ==
               /\ result' = d
               /\ pc' = PullAfterDiff(d, pushArgs.dryRun)
           Have(localM) ==
               /\ local' = localM
               /\ deleteEnabled' = pushArgs.deleteOn
               /\ pushErr' = pushErr
               /\ \E o1 \in RangeOrders(DOMAIN remote),
                     o2 \in RangeOrders(DOMAIN localM) :
                      Diffed(ComputeDiff(remote, localM, pushArgs.deleteOn, o1, o2))
           Walked(w) ==
               /\ walked' = [done |-> TRUE, err |-> w.err, manifest |-> w.manifest]
               /\ \/ /\ \E e \in w.errs : e # "ENOENT"
                     /\ pushErr' = <<"walk local: %w", w.err>>
                     /\ pc' = "pull.close"
                     /\ UNCHANGED <<local, deleteEnabled, result>>
                  \/ /\ w.err = "" \/ "ENOENT" \in w.errs
                     /\ Have(w.manifest)
           Raced(files) == {{}} \cup {{f} : f \in files}
       IN  \E gone \in Raced(queuedFiles(hostFs, pushArgs.localDir, pushArgs.excludes)) :
               Walked(WalkLocalThen(hostFs, Without(hostFs, gone),
                                    pushArgs.localDir, pushArgs.excludes))
    /\ UNCHANGED <<tarVars, agentVars, remote, pushArgs, exists, session,
                   manifestArgs, listed, peerVars>>
    /\ UNCHANGED <<xferVars, connVars, walkVars, frameVars, matchVars>>

\* sess.Pack(remoteDir, downloads, compress)
PullPack ==
    /\ pc = "pull.pack"
    /\ \E hex \in HexNames :
           LET Read(req, h, r) ==
                   /\ request' = req
                   /\ responses' = h.out
                   /\ spriteFs' = h.fs
                   /\ trackedFiles' = h.tracked
                   /\ IF ~r.ok
                      THEN /\ pushErr' = <<"remote pack: %w">> \o r.err
                           /\ pc' = "pull.close"
                           /\ session' = session
                      ELSE /\ session' = [session EXCEPT !.dest = r.resp.Dest]
                           /\ pc' = "pull.fsread"
                           /\ pushErr' = pushErr
               Sent(req, h) == Read(req, h, ReadUntilDone(h.out, 1, "pack"))
               Req == [Request("pack") EXCEPT
                           !.Dir = pushArgs.remoteDir,
                           !.Paths = result.Uploads,
                           !.Dest = remoteTmpPath(hex, pushArgs.compress),
                           !.Compress = pushArgs.compress]
           IN  Sent(Req, handlePack(spriteFs, trackedFiles, Req, umask))
    /\ served' = served + 1
    /\ UNCHANGED <<hostFs, umask, packArgs, packed, archive, unpackArgs, unpacked,
                   fsBefore, running, fatalRun, diffVars, pushArgs, exists,
                   manifestVars, peerVars>>
    /\ UNCHANGED <<xferVars, connVars, walkVars, frameVars, matchVars>>

\* client.FSRead(ctx, sprite, packResult.Dest)
PullFSRead ==
    /\ pc = "pull.fsread"
    /\ LET Got(rd) ==
               IF rd.err # ""
               THEN /\ pushErr' = <<"download: %w", rd.err>>
                    /\ pc' = "pull.close"
                    /\ archive' = archive
               ELSE /\ archive' = [set |-> TRUE, tar |-> rd.body]
                    /\ pc' = "pull.unpack"
                    /\ pushErr' = pushErr
       IN  Got(FSRead(spriteFs, session.dest))
    /\ UNCHANGED <<hostFs, spriteFs, umask, packArgs, packed, unpackArgs, unpacked,
                   fsBefore, agentVars, diffVars, pushArgs, exists, session,
                   manifestVars, peerVars>>
    /\ UNCHANGED <<xferVars, connVars, walkVars, frameVars, matchVars>>

\* pack.UnpackTar(body, localDir, compress) on the driver's host
PullUnpack ==
    /\ pc = "pull.unpack"
    /\ LET Done(u) ==
               /\ hostFs' = u.fs
               /\ unpacked' = [done |-> TRUE, count |-> u.count, err |-> u.err]
               /\ IF u.err # ""
                  THEN pushErr' = <<"unpack: %w", u.err>> /\ pc' = "pull.close"
                  ELSE /\ pushErr' = pushErr
                       /\ pc' = IF result.Deletes # <<>> THEN "pull.remove"
                                ELSE "pull.close"
       IN  Done(UnpackTar(hostFs, archive.tar, pushArgs.localDir, pushArgs.compress,
                          umask))
    /\ unpackArgs' = [dir |-> pushArgs.localDir, compress |-> pushArgs.compress]
    /\ UNCHANGED <<spriteFs, umask, packArgs, packed, archive, fsBefore, agentVars,
                   diffVars, pushArgs, exists, session, manifestVars, peerVars>>
    /\ UNCHANGED <<xferVars, connVars, walkVars, frameVars, matchVars>>

\* os.RemoveAll(filepath.Join(localDir, p)) for every delete
PullRemove ==
    /\ pc = "pull.remove"
    /\ hostFs' = removeLocal(hostFs, pushArgs.localDir, result.Deletes)
    /\ pc' = "pull.close"
    /\ UNCHANGED <<spriteFs, umask, packArgs, packed, archive, unpackArgs, unpacked,
                   fsBefore, agentVars, diffVars, pushArgs, exists, pushErr, session,
                   manifestVars, peerVars>>
    /\ UNCHANGED <<xferVars, connVars, walkVars, frameVars, matchVars>>

\* The deferred sess.Close(ctx) of pullAction
PullClose ==
    /\ pc = "pull.close"
    /\ spriteFs' = closeSession(spriteFs, trackedFiles, session.remoteBin)
    /\ running' = FALSE
    /\ request' = Request("quit")
    /\ responses' = <<>>
    /\ served' = served + 1
    /\ pc' = "pull.returned"
    /\ UNCHANGED <<hostFs, umask, packArgs, packed, archive, unpackArgs, unpacked,
                   fsBefore, trackedFiles, fatalRun, diffVars, pushArgs, exists,
                   pushErr, session, manifestVars, peerVars>>
    /\ UNCHANGED <<xferVars, connVars, walkVars, frameVars, matchVars>>

\* client.FSWriteURL(sprite, path, "", false): the URL Client.FSWrite puts
\* to, with the path as its query parameter.
FSWriteURL(path) ==
    <<"u">> \o PathParam \o path

\* The bearer token requireToken gave
Token == <<"k">>

\* What the PUT of handleTransfer does at the file API of the destination
\* sprite, whose file system is fs: [http, fs].  The connection fails, or the
\* server writes the body it gets and answers with a status.
PutOutcomes(fs, req, body, mask) ==
    LET Served(w) ==
            [http |-> IF w.err # "" THEN "refused" ELSE "done", fs |-> w.fs]
    IN  {[http |-> "down", fs |-> fs],
         Served(FSWrite(fs, extractPathParam(req.URL), <<>>, TarNode(0, body), mask))}

\* Where spriteToSpritePush would go after the diff, were the extract asked
\* for without the transfer.
S2SAfterDiffNoTransfer(diff, dryRun) ==
    IF diff.Uploads = <<>> /\ diff.Deletes = <<>> THEN "s2s.closeDst"
    ELSE IF dryRun THEN "s2s.closeDst"
    ELSE IF diff.Uploads # <<>> THEN "s2s.extract"
    ELSE "s2s.delete"

\* Where spriteToSpritePush goes after the diff
S2SAfterDiff(diff, dryRun) ==
    IF diff.Uploads = <<>> /\ diff.Deletes = <<>> THEN "s2s.closeDst"
    ELSE IF dryRun THEN "s2s.closeDst"
    ELSE IF diff.Uploads # <<>> THEN "s2s.transfer"
    ELSE "s2s.delete"

\* openSession(ctx, client, srcSprite)
S2SOpenSrc ==
    /\ pc = "s2s.start"
    /\ \E hex \in HexNames :
           LET Opened(o) ==
                   /\ srcFs' = o.fs
                   /\ IF o.err # ""
                      THEN /\ pushErr' = <<"src session: %w", "open session: %w", o.err>>
                           /\ pc' = "s2s.returned"
                           /\ srcSession' = srcSession
                      ELSE /\ srcSession' = [srcSession EXCEPT !.remoteBin = o.bin,
                                                               !.running = TRUE]
                           /\ pc' = "s2s.dst"
                           /\ pushErr' = pushErr
           IN  Opened(openSession(srcFs, hex, umask))
    /\ UNCHANGED <<diffVars, tarVars, agentVars, pushArgs, exists, session,
                   manifestVars>>
    /\ UNCHANGED <<xferVars, connVars, walkVars, frameVars, matchVars>>

\* openSession(ctx, client, dstSprite)
S2SOpenDst ==
    /\ pc = "s2s.dst"
    /\ \E hex \in HexNames :
           LET Opened(o) ==
                   /\ spriteFs' = o.fs
                   /\ IF o.err # ""
                      THEN /\ pushErr' = <<"dst session: %w", "open session: %w", o.err>>
                           /\ pc' = "s2s.closeSrc"
                           /\ UNCHANGED <<session, running>>
                      ELSE /\ session' = [session EXCEPT !.remoteBin = o.bin]
                           /\ running' = TRUE
                           /\ pc' = "s2s.srcManifest"
                           /\ pushErr' = pushErr
           IN  Opened(openSession(spriteFs, hex, umask))
    /\ UNCHANGED <<diffVars, hostFs, umask, packArgs, packed, archive, unpackArgs,
                   unpacked, fsBefore, trackedFiles, request, responses, served,
                   fatalRun, pushArgs, exists, manifestVars, peerVars>>
    /\ UNCHANGED <<xferVars, connVars, walkVars, frameVars, matchVars>>

\* srcSess.Manifest(srcDir, excludes); a source directory that does not
\* exist is an error.
S2SSrcManifest ==
    /\ pc = "s2s.srcManifest"
    /\ LET Read(req, h, r) ==
               /\ srcSession' = [srcSession EXCEPT !.request = req, !.responses = h.out]
               /\ IF ~r.ok
                  THEN /\ pushErr' = <<"src manifest: %w">> \o r.err
                       /\ pc' = "s2s.closeDst"
                       /\ local' = local
                  ELSE IF ~r.resp.Exists
                  THEN /\ pushErr' = <<"source %s:%s does not exist">>
                       /\ pc' = "s2s.closeDst"
                       /\ local' = local
                  ELSE /\ local' = EntriesToManifest(entriesRead(h.out, r.last))
                       /\ pc' = "s2s.dstManifest"
                       /\ pushErr' = pushErr
           Sent(req, h) == Read(req, h, ReadUntilDone(h.out, 1, "manifest"))
           Req == [Request("manifest") EXCEPT !.Dir = pushArgs.localDir,
                                              !.Excludes = pushArgs.excludes]
       IN  Sent(Req, handleManifest(srcFs, srcSession.tracked, Req))
    /\ UNCHANGED <<tarVars, agentVars, remote, deleteEnabled, result, pushArgs, exists,
                   session, manifestVars, srcFs>>
    /\ UNCHANGED <<xferVars, connVars, walkVars, frameVars, matchVars>>

\* dstSess.Manifest(dstDir, excludes), the uploads and deletes, and the two
\* early returns
S2SDstManifest ==
    /\ pc = "s2s.dstManifest"
    /\ LET Diffed(d) ==
               /\ result' = d
               /\ pc' = S2SAfterDiff(d, pushArgs.dryRun)
           Have(dstM, dstExists) ==
               /\ remote' = dstM
               /\ exists' = dstExists
               /\ deleteEnabled' = pushArgs.deleteOn
               /\ pushErr' = pushErr
               /\ \E o1 \in RangeOrders(DOMAIN local), o2 \in RangeOrders(DOMAIN dstM) :
                      Diffed(PushDiff(local, dstM, dstExists, pushArgs.deleteOn, o1, o2))
           Read(req, h, r) ==
               /\ request' = req
               /\ responses' = h.out
               /\ IF ~r.ok
                  THEN /\ pushErr' = <<"dst manifest: %w">> \o r.err
                       /\ pc' = "s2s.closeDst"
                       /\ UNCHANGED <<remote, exists, deleteEnabled, result>>
                  ELSE Have(EntriesToManifest(entriesRead(h.out, r.last)), r.resp.Exists)
           Sent(req, h) == Read(req, h, ReadUntilDone(h.out, 1, "manifest"))
           Req == [Request("manifest") EXCEPT !.Dir = pushArgs.remoteDir,
                                              !.Excludes = pushArgs.excludes]
       IN  Sent(Req, handleManifest(spriteFs, trackedFiles, Req))
    /\ served' = served + 1
    /\ UNCHANGED <<tarVars, trackedFiles, running, fatalRun, local, pushArgs, session,
                   manifestVars, peerVars>>
    /\ UNCHANGED <<xferVars, connVars, walkVars, frameVars, matchVars>>

\* srcSess.Transfer(srcDir, uploads, compress, destURL, token): the source
\* agent packs and puts the tar to the file API of the destination sprite.
S2STransfer ==
    /\ pc = "s2s.transfer"
    /\ \E hex \in HexNames :
           LET Read(req, h, r, put) ==
                   /\ srcSession' = [srcSession EXCEPT !.request = req,
                                                       !.responses = h.out,
                                                       !.tracked = h.tracked]
                   /\ srcFs' = h.fs
                   /\ spriteFs' = put.fs
                   /\ session' = [session EXCEPT !.dest = extractPathParam(req.URL)]
                   /\ IF ~r.ok
                      THEN pushErr' = <<"transfer: %w">> \o r.err /\ pc' = "s2s.closeDst"
                      ELSE pushErr' = pushErr /\ pc' = "s2s.extract"
               Sent(req, h, put) ==
                   Read(req, h, ReadUntilDone(h.out, 1, "transfer"), put)
               Req == [Request("transfer") EXCEPT
                           !.Dir = pushArgs.localDir,
                           !.Paths = result.Uploads,
                           !.Compress = pushArgs.compress,
                           !.URL = FSWriteURL(remoteTmpPath(hex, pushArgs.compress)),
                           !.Token = Token]
           IN  \E put \in PutOutcomes(spriteFs, Req,
                                      PackTar(srcFs, Req.Dir, Req.Paths, Req.Compress).tar,
                                      umask) :
                   Sent(Req, handleTransfer(srcFs, srcSession.tracked, Req, put.http), put)
    /\ UNCHANGED <<hostFs, umask, packArgs, packed, archive, unpackArgs, unpacked,
                   fsBefore, agentVars, diffVars, pushArgs, exists, manifestVars>>
    /\ UNCHANGED <<xferVars, connVars, walkVars, frameVars, matchVars>>

\* dstSess.Extract(dstDir, dest, compress)
S2SExtract ==
    /\ pc = "s2s.extract"
    /\ LET Read(req, h, r) ==
               /\ request' = req
               /\ responses' = h.out
               /\ spriteFs' = h.fs
               /\ trackedFiles' = h.tracked
               /\ IF ~r.ok
                  THEN pushErr' = <<"extract: %w">> \o r.err /\ pc' = "s2s.closeDst"
                  ELSE /\ pushErr' = pushErr
                       /\ pc' = IF result.Deletes # <<>> THEN "s2s.delete"
                                ELSE "s2s.closeDst"
           Sent(req, h) == Read(req, h, ReadUntilDone(h.out, 1, "extract"))
           Req == [Request("extract") EXCEPT !.Dir = pushArgs.remoteDir,
                                             !.Src = session.dest,
                                             !.Compress = pushArgs.compress]
       IN  Sent(Req, handleExtract(spriteFs, trackedFiles, Req, umask))
    /\ served' = served + 1
    /\ UNCHANGED <<hostFs, umask, packArgs, packed, archive, unpackArgs, unpacked,
                   fsBefore, running, fatalRun, diffVars, pushArgs, exists, session,
                   manifestVars, peerVars>>
    /\ UNCHANGED <<xferVars, connVars, walkVars, frameVars, matchVars>>

\* dstSess.Delete(dstDir, deletes)
S2SDelete ==
    /\ pc = "s2s.delete"
    /\ LET Read(req, h, r) ==
               /\ request' = req
               /\ responses' = h.out
               /\ spriteFs' = h.fs
               /\ trackedFiles' = h.tracked
               /\ IF ~r.ok
                  THEN pushErr' = <<"delete: %w">> \o r.err
                  ELSE pushErr' = pushErr
           Sent(req, h) == Read(req, h, ReadUntilDone(h.out, 1, "delete"))
           Req == [Request("delete") EXCEPT !.Dir = pushArgs.remoteDir,
                                            !.Paths = result.Deletes]
       IN  Sent(Req, handleDelete(spriteFs, trackedFiles, Req))
    /\ pc' = "s2s.closeDst"
    /\ served' = served + 1
    /\ UNCHANGED <<hostFs, umask, packArgs, packed, archive, unpackArgs, unpacked,
                   fsBefore, running, fatalRun, diffVars, pushArgs, exists, session,
                   manifestVars, peerVars>>
    /\ UNCHANGED <<xferVars, connVars, walkVars, frameVars, matchVars>>

\* The deferred dstSess.Close(ctx), which runs first
S2SCloseDst ==
    /\ pc = "s2s.closeDst"
    /\ spriteFs' = closeSession(spriteFs, trackedFiles, session.remoteBin)
    /\ running' = FALSE
    /\ request' = Request("quit")
    /\ responses' = <<>>
    /\ served' = served + 1
    /\ pc' = "s2s.closeSrc"
    /\ UNCHANGED <<hostFs, umask, packArgs, packed, archive, unpackArgs, unpacked,
                   fsBefore, trackedFiles, fatalRun, diffVars, pushArgs, exists,
                   pushErr, session, manifestVars, peerVars>>
    /\ UNCHANGED <<xferVars, connVars, walkVars, frameVars, matchVars>>

\* The deferred srcSess.Close(ctx)
S2SCloseSrc ==
    /\ pc = "s2s.closeSrc"
    /\ srcFs' = closeSession(srcFs, srcSession.tracked, srcSession.remoteBin)
    /\ srcSession' = [srcSession EXCEPT !.running = FALSE,
                                        !.request = Request("quit"),
                                        !.responses = <<>>]
    /\ pc' = "s2s.returned"
    /\ UNCHANGED <<diffVars, tarVars, agentVars, pushArgs, exists, pushErr, session,
                   manifestVars>>
    /\ UNCHANGED <<xferVars, connVars, walkVars, frameVars, matchVars>>

\* The source sprites: without /r; /r with a (0600) and d/a; /r with a and
\* the link b -> a.
SourceTrees ==
    {SpriteBase,
     SpriteBase @@ (RemoteRoot :> DirNode(DirPerm))
         @@ (JoinChild(RemoteRoot, <<"a">>) :> FileNode(384, DataOld))
         @@ (JoinChild(RemoteRoot, <<"d">>) :> DirNode(DirPerm))
         @@ (JoinChild(RemoteRoot, <<"d", "/", "a">>) :> FileNode(DirPerm, DataC)),
     SpriteBase @@ (RemoteRoot :> DirNode(DirPerm))
         @@ (JoinChild(RemoteRoot, <<"a">>) :> FileNode(420, DataA))
         @@ (JoinChild(RemoteRoot, <<"b">>) :> LinkNode(JoinChild(RemoteRoot, <<"a">>)))}

\* The trees of the driver's host in a pull: those of a push, and one
\* without /l.
PullHostTrees ==
    HostTrees \cup {(Slash :> DirNode(DirPerm))}

\* The sprite before a pull: the trees of a push, and /r with a file a that
\* the agent cannot open.
PullSpriteTrees ==
    PushSpriteTrees
    \cup {SpriteBase @@ (RemoteRoot :> DirNode(DirPerm))
              @@ (JoinChild(RemoteRoot, <<"a">>) :> FileNode(0, DataA))}

\* A push, a pull or a sprite-to-sprite push with any flags, on any trees
SyncInit ==
    /\ XferIdle
    /\ ConnIdle
    /\ MatchIdle
    /\ FramesIdle
    /\ WalkIdle
    /\ pc \in {"start", "pull.start", "s2s.start"}
    /\ IF pc = "s2s.start" THEN srcFs \in SourceTrees /\ srcSession = NoPeer
       ELSE PeerIdle
    /\ ManifestIdle
    /\ DiffIdle
    /\ hostFs \in IF pc = "pull.start" THEN PullHostTrees
                  ELSE IF pc = "start" THEN HostTrees
                  ELSE {HostTree}
    /\ spriteFs \in IF pc = "pull.start" THEN PullSpriteTrees ELSE PushSpriteTrees
    /\ fsBefore = spriteFs
    /\ umask \in Umasks
    /\ packArgs = NoPack
    /\ packed = NotPacked
    /\ archive = NoArchive
    /\ unpackArgs = NoUnpack
    /\ unpacked = NotUnpacked
    /\ trackedFiles = <<>>
    /\ request = NoRequest
    /\ responses = <<>>
    /\ served = 0
    /\ running = FALSE
    /\ fatalRun = 0
    /\ pushArgs \in {[localDir |-> IF pc = "s2s.start" THEN RemoteRoot ELSE LocalRoot,
                      remoteDir |-> RemoteRoot, excludes |-> x,
                      compress |-> c, deleteOn |-> d, dryRun |-> n] :
                        x \in PushExcludes, c \in BOOLEAN, d \in BOOLEAN, n \in BOOLEAN}
    /\ exists = FALSE
    /\ pushErr = <<>>
    /\ session = NoSession

SyncNext ==
    \/ PushOpenSession
    \/ PushManifest
    \/ PushWalkLocal
    \/ PushPack
    \/ PushFSWrite
    \/ PushExtract
    \/ PushDelete
    \/ PushClose
    \/ PullOpenSession
    \/ PullManifest
    \/ PullWalkLocal
    \/ PullPack
    \/ PullFSRead
    \/ PullUnpack
    \/ PullRemove
    \/ PullClose
    \/ S2SOpenSrc
    \/ S2SOpenDst
    \/ S2SSrcManifest
    \/ S2SDstManifest
    \/ S2STransfer
    \/ S2SExtract
    \/ S2SDelete
    \/ S2SCloseDst
    \/ S2SCloseSrc

SpecSync ==
    SyncInit /\ [][SyncNext]_vars

-----------------------------------------------------------------------------
(* The manifest specification: pack.WalkLocal and the agent's manifest,     *)
(* read by Session.Manifest, on one tree with one exclude list.             *)

\* Session.Manifest, were an error response of any kind to fail the request.
SessionManifestStrict(out) ==
    LET Read(r) ==
            IF ~r.ok \/ \E i \in 1..Len(out) : out[i].Type = "error"
            THEN [err |-> <<"agent error">>, exists |-> FALSE, entries |-> <<>>]
            ELSE [err |-> <<>>, exists |-> r.resp.Exists,
                  entries |-> entriesRead(out, r.last)]
    IN  Read(ReadUntilDone(out, 1, "manifest"))

\* Session.Manifest on the responses out: [err, exists, entries]
SessionManifest(out) ==
    LET Read(r) ==
            IF ~r.ok THEN [err |-> r.err, exists |-> FALSE, entries |-> <<>>]
            ELSE [err |-> <<>>, exists |-> r.resp.Exists,
                  entries |-> entriesRead(out, r.last)]
    IN  Read(ReadUntilDone(out, 1, "manifest"))

\* The trees walked: those of the sprite; /r with an unreadable file a and
\* a file b; /r with an unreadable directory d and a file b; /r a regular
\* file; /r with a, d/a and the links c -> a and e -> d.
ManifestTrees ==
    SpriteTrees
    \cup {SpriteBase @@ (RemoteRoot :> DirNode(DirPerm))
              @@ (JoinChild(RemoteRoot, <<"a">>) :> FileNode(0, DataA))
              @@ (JoinChild(RemoteRoot, <<"b">>) :> FileNode(420, DataB)),
          SpriteBase @@ (RemoteRoot :> DirNode(DirPerm))
              @@ (JoinChild(RemoteRoot, <<"b">>) :> FileNode(420, DataB))
              @@ (JoinChild(RemoteRoot, <<"d">>) :> DirNode(0))
              @@ (JoinChild(RemoteRoot, <<"d", "/", "a">>) :> FileNode(420, DataC)),
          SpriteBase @@ (RemoteRoot :> FileNode(420, DataA)),
          SpriteBase @@ (RemoteRoot :> DirNode(DirPerm))
              @@ (JoinChild(RemoteRoot, <<"a">>) :> FileNode(420, DataA))
              @@ (JoinChild(RemoteRoot, <<"d">>) :> DirNode(DirPerm))
              @@ (JoinChild(RemoteRoot, <<"d", "/", "a">>) :> FileNode(384, DataC))
              @@ (JoinChild(RemoteRoot, <<"c">>) :> LinkNode(JoinChild(RemoteRoot, <<"a">>)))
              @@ (JoinChild(RemoteRoot, <<"e">>) :> LinkNode(JoinChild(RemoteRoot, <<"d">>)))}

\* The directories walked: none, /r, a file of it, a directory of it, a link
\* to a directory, a missing entry.
ManifestDirs ==
    {<<>>, RemoteRoot, JoinChild(RemoteRoot, <<"a">>), JoinChild(RemoteRoot, <<"d">>),
     JoinChild(RemoteRoot, <<"l">>), JoinChild(RemoteRoot, <<"x">>)}

\* The exclude lists: none, `d`, `**/a`, `a` and `b` together.
ManifestExcludes ==
    ExcludeInputs \cup {<<<<"a">>, <<"b">>>>}

ManifestInit ==
    /\ XferIdle
    /\ ConnIdle
    /\ MatchIdle
    /\ FramesIdle
    /\ WalkIdle
    /\ PeerIdle
    /\ DiffIdle
    /\ PushIdle
    /\ AgentIdle
    /\ spriteFs \in ManifestTrees
    /\ hostFs = spriteFs
    /\ fsBefore = spriteFs
    /\ umask = 0
    /\ packArgs = NoPack
    /\ packed = NotPacked
    /\ archive = NoArchive
    /\ unpackArgs = NoUnpack
    /\ unpacked = NotUnpacked
    /\ manifestArgs \in [dir : ManifestDirs, excludes : ManifestExcludes]
    /\ walked = NotWalked
    /\ listed = NotListed

\* pack.WalkLocal(dir, excludes) on the tree
ManifestWalkLocal ==
    /\ ~walked.done
    /\ LET Walked(w) ==
               walked' = [done |-> TRUE, err |-> w.err, manifest |-> w.manifest]
       IN  Walked(WalkLocal(hostFs, manifestArgs.dir, manifestArgs.excludes))
    /\ UNCHANGED <<diffVars, tarVars, agentVars, pushVars, manifestArgs, listed>>
    /\ UNCHANGED peerVars
    /\ UNCHANGED <<xferVars, connVars, walkVars, frameVars, matchVars>>

\* Session.Manifest sends its request and the agent serves it.
ManifestRequest ==
    /\ running
    /\ request = NoRequest
    /\ ~listed.done
    /\ LET Served(req, r) ==
               /\ request' = req
               /\ spriteFs' = r.fs
               /\ trackedFiles' = r.tracked
               /\ responses' = r.out
               /\ running' = ~r.exit
           Sent(req) == Served(req, Serve(spriteFs, trackedFiles, req, umask, "done"))
       IN  Sent([Request("manifest") EXCEPT !.Dir = manifestArgs.dir,
                                            !.Excludes = manifestArgs.excludes])
    /\ fsBefore' = spriteFs
    /\ served' = served + 1
    /\ UNCHANGED <<fatalRun, hostFs, umask, packArgs, packed, archive, unpackArgs,
                   unpacked, diffVars, pushVars, manifestArgs, walked, listed>>
    /\ UNCHANGED peerVars
    /\ UNCHANGED <<xferVars, connVars, walkVars, frameVars, matchVars>>

\* Session.Manifest reads the responses and returns.
ManifestReturn ==
    /\ request # NoRequest
    /\ ~listed.done
    /\ LET Read(m) ==
               listed' = [done |-> TRUE, err |-> m.err, exists |-> m.exists,
                          entries |-> m.entries]
       IN  Read(SessionManifest(responses))
    /\ UNCHANGED <<diffVars, tarVars, agentVars, pushVars, manifestArgs, walked>>
    /\ UNCHANGED peerVars
    /\ UNCHANGED <<xferVars, connVars, walkVars, frameVars, matchVars>>

ManifestNext ==
    \/ ManifestWalkLocal
    \/ ManifestRequest
    \/ ManifestReturn

SpecManifest ==
    ManifestInit /\ [][ManifestNext]_vars

-----------------------------------------------------------------------------
(* handleTransfer step by step (cmd/spryncd/main.go): the goroutine that    *)
(* packs into the pipe, the PUT that reads the pipe as its body, and the    *)
(* handler that waits for both.                                             *)

\* The most writes PackTar makes to the pipe; the end of the archive, which
\* its deferred tw.Close writes, is one of them.
MaxChunks == 2

\* The fatal errors of handleTransfer
TransferFatals ==
    {"build request: %s", "transfer: %s", "transfer http %d", "pack: %s"}

\* pw.Close(), were the error of PackTar dropped.
CloseWithErrorDropped(err) ==
    "eof"

\* pw.CloseWithError(err): what a read past the last write returns
CloseWithError(err) ==
    IF err THEN "err" ELSE "eof"

\* The transfer passed its checks: io.Pipe(), make(chan packResult, 1), and
\* the goroutine is started.  PackTar is to make `left` writes and then to
\* return an error or nil.
TransferInit ==
    /\ DiffIdle
    /\ TarIdle
    /\ AgentIdle
    /\ PushIdle
    /\ ManifestIdle
    /\ PeerIdle
    /\ ConnIdle
    /\ MatchIdle
    /\ FramesIdle
    /\ WalkIdle
    /\ packer \in [pc : {"run"}, left : 1..MaxChunks, fails : BOOLEAN, err : {FALSE}]
    /\ upload = [body |-> "none", answer |-> "none"]
    /\ handler = [pc |-> "build", sent |-> "", prClosed |-> FALSE]

\* PackTar reaches a write: pw.Write waits for the reader, and fails when
\* the read end is closed.
PackWrite ==
    /\ packer.pc = "run"
    /\ packer.left > 0
    /\ packer' = IF handler.prClosed
                 THEN [packer EXCEPT !.pc = "done", !.err = TRUE]
                 ELSE [packer EXCEPT !.pc = "write"]
    /\ UNCHANGED <<upload, handler>>
    /\ UNCHANGED <<diffVars, tarVars, agentVars, pushVars, manifestVars, peerVars,
                   connVars, walkVars, frameVars, matchVars>>

\* pr.Close() ends a write that waits; PackTar returns its error, the
\* goroutine closes the pipe and sends the result on ch, which has room.
PackUnblocked ==
    /\ packer.pc = "write"
    /\ handler.prClosed
    /\ packer' = [packer EXCEPT !.pc = "done", !.err = TRUE]
    /\ UNCHANGED <<upload, handler>>
    /\ UNCHANGED <<diffVars, tarVars, agentVars, pushVars, manifestVars, peerVars,
                   connVars, walkVars, frameVars, matchVars>>

\* PackTar returns after its last write: pw.CloseWithError(err) and
\* ch <- packResult{count, err}
PackReturn ==
    /\ packer.pc = "run"
    /\ packer.left = 0
    /\ packer' = [packer EXCEPT !.pc = "done", !.err = packer.fails]
    /\ UNCHANGED <<upload, handler>>
    /\ UNCHANGED <<diffVars, tarVars, agentVars, pushVars, manifestVars, peerVars,
                   connVars, walkVars, frameVars, matchVars>>

\* The transport reads the body: the write that waits is taken.
BodyRead ==
    /\ packer.pc = "write"
    /\ upload.body = "reading"
    /\ packer' = [packer EXCEPT !.pc = "run", !.left = packer.left - 1]
    /\ UNCHANGED <<upload, handler>>
    /\ UNCHANGED <<diffVars, tarVars, agentVars, pushVars, manifestVars, peerVars,
                   connVars, walkVars, frameVars, matchVars>>

\* The transport reads past the last write: the end of the stream, or the
\* error the pipe was closed with, which fails a request not yet answered.
BodyEnd ==
    /\ packer.pc = "done"
    /\ upload.body = "reading"
    /\ upload' = [body |-> CloseWithError(packer.err),
                  answer |-> IF CloseWithError(packer.err) = "err"
                                /\ upload.answer = "none"
                             THEN "failed" ELSE upload.answer]
    /\ UNCHANGED <<packer, handler>>
    /\ UNCHANGED <<diffVars, tarVars, agentVars, pushVars, manifestVars, peerVars,
                   connVars, walkVars, frameVars, matchVars>>

\* The server answers, with a status below 400 or not, having read the body
\* to its end or not.
ServerAnswer ==
    /\ upload.body \in {"reading", "eof"}
    /\ upload.answer = "none"
    /\ \E a \in {"ok", "bad"} : upload' = [upload EXCEPT !.answer = a]
    /\ UNCHANGED <<packer, handler>>
    /\ UNCHANGED <<diffVars, tarVars, agentVars, pushVars, manifestVars, peerVars,
                   connVars, walkVars, frameVars, matchVars>>

\* The request fails: no connection, or a connection lost.  The transport
\* reads the body no further.
RequestFails ==
    /\ upload.body \in {"reading", "eof"}
    /\ upload.answer = "none"
    /\ upload' = [body |-> IF upload.body = "reading" THEN "dropped" ELSE upload.body,
                  answer |-> "failed"]
    /\ UNCHANGED <<packer, handler>>
    /\ UNCHANGED <<diffVars, tarVars, agentVars, pushVars, manifestVars, peerVars,
                   connVars, walkVars, frameVars, matchVars>>

\* After the answer the transport gives the body up: the connection is
\* closed, and the body, which is no io.Closer, stays open.
BodyDropped ==
    /\ upload.body = "reading"
    /\ upload.answer \in {"ok", "bad"}
    /\ upload' = [upload EXCEPT !.body = "dropped"]
    /\ UNCHANGED <<packer, handler>>
    /\ UNCHANGED <<diffVars, tarVars, agentVars, pushVars, manifestVars, peerVars,
                   connVars, walkVars, frameVars, matchVars>>

\* http.NewRequest("PUT", req.URL, cr): on an error pr.Close() and a fatal
\* error; else the request is sent.
HandlerBuild ==
    /\ handler.pc = "build"
    /\ \/ /\ handler' = [handler EXCEPT !.pc = "do"]
          /\ upload' = [upload EXCEPT !.body = "reading"]
       \/ /\ handler' = [pc |-> "returned", sent |-> "build request: %s",
                         prClosed |-> TRUE]
          /\ upload' = upload
    /\ UNCHANGED packer
    /\ UNCHANGED <<diffVars, tarVars, agentVars, pushVars, manifestVars, peerVars,
                   connVars, walkVars, frameVars, matchVars>>

\* http.DefaultClient.Do returns: an error, a status of 400 or above, or a
\* status below, after which the handler waits at <-ch.
HandlerDo ==
    /\ handler.pc = "do"
    /\ upload.answer # "none"
    /\ handler' = IF upload.answer = "failed"
                  THEN [handler EXCEPT !.pc = "returned", !.sent = "transfer: %s"]
                  ELSE IF upload.answer = "bad"
                  THEN [handler EXCEPT !.pc = "returned", !.sent = "transfer http %d"]
                  ELSE [handler EXCEPT !.pc = "wait"]
    /\ UNCHANGED <<packer, upload>>
    /\ UNCHANGED <<diffVars, tarVars, agentVars, pushVars, manifestVars, peerVars,
                   connVars, walkVars, frameVars, matchVars>>

\* res := <-ch, then the fatal error of the pack or transfer_done
HandlerReceive ==
    /\ handler.pc = "wait"
    /\ packer.pc = "done"
    /\ handler' = [handler EXCEPT !.pc = "returned",
                                  !.sent = IF packer.err THEN "pack: %s"
                                           ELSE "transfer_done"]
    /\ UNCHANGED <<packer, upload>>
    /\ UNCHANGED <<diffVars, tarVars, agentVars, pushVars, manifestVars, peerVars,
                   connVars, walkVars, frameVars, matchVars>>

TransferNext ==
    \/ PackWrite
    \/ PackUnblocked
    \/ PackReturn
    \/ BodyRead
    \/ BodyEnd
    \/ ServerAnswer
    \/ RequestFails
    \/ BodyDropped
    \/ HandlerBuild
    \/ HandlerDo
    \/ HandlerReceive

\* The goroutines and the transport take their steps; the server need not
\* answer.
TransferFairness ==
    /\ WF_vars(PackWrite)
    /\ WF_vars(PackUnblocked)
    /\ WF_vars(PackReturn)
    /\ WF_vars(BodyRead)
    /\ WF_vars(BodyEnd)
    /\ WF_vars(HandlerBuild)
    /\ WF_vars(HandlerDo)
    /\ WF_vars(HandlerReceive)

SpecTransfer ==
    TransferInit /\ [][TransferNext]_vars /\ TransferFairness

-----------------------------------------------------------------------------
(* The session over the WebSocket: the remote process and the server that  *)
(* frames its output (unnamed/part_000, EXEC), WSConn with its read pump   *)
(* (pkg/protocol/wsconn.go), OpenSession, drainStderr and the methods of   *)
(* Session (pkg/spriteapi/websocket.go), called by two goroutines of the   *)
(* driver.  A stdout frame carries one response line.                      *)

\* The goroutines of the driver that call methods of the session
MaxCallers == 2

Callers == 1..MaxCallers

\* The stderr frames on their way to the driver at one time
MaxStderr == 1

\* Manifest, Pack, Extract, Delete, Transfer and Close
CallCmds == {"manifest", "pack", "extract", "delete", "transfer", "close"}

\* What the server sends when the process has exited: a binary 0x03 frame,
\* a text message of type exit, both in either order, or neither.
ExitOrders ==
    {<<>>, <<"exit3">>, <<"exitText">>, <<"exit3", "exitText">>,
     <<"exitText", "exit3">>}

\* The first line of a remote binary that is not the agent: one that is no
\* JSON object with a type, a response of another type, or none.
FirstLines == {"garbage", "fatal", ""}

\* The response lines with which the agent answers a request, in order; a
\* transfer whose upload stalls is never answered.
Answers(cmd) ==
    IF cmd = "manifest"
    THEN {<<"entry", "manifest_done">>, <<"nonfatal", "manifest_done">>, <<"fatal">>}
    ELSE IF cmd = "transfer"
    THEN {<<"transfer_done">>, <<"fatal">>, <<>>}
    ELSE {<<DoneType(cmd)>>, <<"fatal">>}

NoCall == [pc |-> "idle", cmd |-> "", res |-> ""]

\* A call that has returned, with "ok" for a nil error and "err" for another.
CallReturned(res) == [pc |-> "done", cmd |-> "", res |-> res]

\* The process is alive: no goroutine has panicked.
Alive == wsc.pump # "panic"

\* After ExecWebSocket and NewWSConn: the pump and drainStderr run,
\* OpenSession is about to read the first line, the remote binary starts.
ConnInit ==
    /\ DiffIdle
    /\ TarIdle
    /\ AgentIdle
    /\ PushIdle
    /\ ManifestIdle
    /\ PeerIdle
    /\ XferIdle
    /\ MatchIdle
    /\ FramesIdle
    /\ WalkIdle
    /\ wire = <<"info">>
    /\ toAgent = <<>>
    /\ agentProc \in [pc : {"start"}, agent : BOOLEAN, todo : {<<>>}, code : {0},
                      up : {TRUE}, readySent : {FALSE}]
    /\ wsc = [pump |-> "read", held |-> "", cancelled |-> FALSE, closes |-> 0,
              exitCode |-> -1, stdout |-> "open", drain |-> "alive",
              session |-> FALSE]
    /\ calls = [i \in Callers |-> NoCall]
    /\ mu = 0
    /\ sess = [pc |-> "open", first |-> "", closed |-> FALSE, steps |-> <<>>,
               err |-> FALSE]

\* spryncd main: the ready frame, sent before the scanner over stdin is
\* made.  Another binary writes some first line, or none, and exits 1.
AgentStart ==
    /\ agentProc.pc = "start"
    /\ agentProc.up
    /\ \/ /\ agentProc.agent
          /\ wire' = Append(wire, "ready")
          /\ agentProc' = [agentProc EXCEPT !.pc = "loop", !.readySent = TRUE]
       \/ /\ ~agentProc.agent
          /\ \E l \in FirstLines :
                wire' = IF l = "" THEN wire ELSE Append(wire, l)
          /\ agentProc' = [agentProc EXCEPT !.pc = "exiting", !.code = 1]
    /\ UNCHANGED <<toAgent, wsc, calls, mu, sess>>
    /\ UNCHANGED <<diffVars, tarVars, agentVars, pushVars, manifestVars, peerVars,
                   xferVars, walkVars, frameVars, matchVars>>

\* spryncd main: scanner.Scan() takes the next request line; quit exits
\* with status 0, another command is handled.
AgentTake ==
    /\ agentProc.pc = "loop"
    /\ agentProc.todo = <<>>
    /\ toAgent # <<>>
    /\ toAgent' = Tail(toAgent)
    /\ IF Head(toAgent).cmd = "quit"
       THEN agentProc' = [agentProc EXCEPT !.pc = "exiting", !.code = 0]
       ELSE \E a \in Answers(Head(toAgent).cmd) :
                agentProc' = IF a = <<>>
                             THEN [agentProc EXCEPT !.pc = "hung"]
                             ELSE [agentProc EXCEPT !.todo = a]
    /\ UNCHANGED <<wire, wsc, calls, mu, sess>>
    /\ UNCHANGED <<diffVars, tarVars, agentVars, pushVars, manifestVars, peerVars,
                   xferVars, walkVars, frameVars, matchVars>>

\* send: one response line, which the server forwards in a stdout frame.
AgentSend ==
    /\ agentProc.pc = "loop"
    /\ agentProc.todo # <<>>
    /\ agentProc.up
    /\ wire' = Append(wire, Head(agentProc.todo))
    /\ agentProc' = [agentProc EXCEPT !.todo = Tail(agentProc.todo)]
    /\ UNCHANGED <<toAgent, wsc, calls, mu, sess>>
    /\ UNCHANGED <<diffVars, tarVars, agentVars, pushVars, manifestVars, peerVars,
                   xferVars, walkVars, frameVars, matchVars>>

\* The stderr frames the pump has not passed on yet
StderrInFlight ==
    Cardinality({k \in 1..Len(wire) : wire[k] \in {"err", "errLong"}})
        + (IF wsc.pump = "errWrite" THEN 1 ELSE 0)

\* The remote process writes to stderr: a frame that ends a line of less
\* than 64 KiB, or one that brings a line to 64 KiB without ending it.
ServerStderr(long) ==
    /\ agentProc.pc \in {"loop", "hung"}
    /\ agentProc.up
    /\ StderrInFlight < MaxStderr
    /\ wire' = Append(wire, IF long THEN "errLong" ELSE "err")
    /\ agentProc' = agentProc
    /\ UNCHANGED <<toAgent, wsc, calls, mu, sess>>
    /\ UNCHANGED <<diffVars, tarVars, agentVars, pushVars, manifestVars, peerVars,
                   xferVars, walkVars, frameVars, matchVars>>

\* The process has exited: the server reports it and closes the WebSocket.
ServerExit(order) ==
    /\ agentProc.pc = "exiting"
    /\ agentProc.up
    /\ wire' = wire \o order \o <<"fin">>
    /\ agentProc' = [agentProc EXCEPT !.pc = "exited", !.up = FALSE]
    /\ UNCHANGED <<toAgent, wsc, calls, mu, sess>>
    /\ UNCHANGED <<diffVars, tarVars, agentVars, pushVars, manifestVars, peerVars,
                   xferVars, walkVars, frameVars, matchVars>>

\* The WebSocket closes under the session: the frames sent before are still
\* read, then ws.Read fails.
PeerCloses ==
    /\ agentProc.up
    /\ agentProc.pc \in {"loop", "hung"}
    /\ wire' = Append(wire, "fin")
    /\ agentProc' = [agentProc EXCEPT !.up = FALSE]
    /\ UNCHANGED <<toAgent, wsc, calls, mu, sess>>
    /\ UNCHANGED <<diffVars, tarVars, agentVars, pushVars, manifestVars, peerVars,
                   xferVars, walkVars, frameVars, matchVars>>

\* The context given to OpenSession, of which c.ctx is a child, is
\* cancelled.
CtxCancel ==
    /\ Alive
    /\ ~wsc.cancelled
    /\ sess.pc \in {"open", "ready"}
    /\ wsc' = [wsc EXCEPT !.cancelled = TRUE]
    /\ UNCHANGED <<wire, toAgent, agentProc, calls, mu, sess>>
    /\ UNCHANGED <<diffVars, tarVars, agentVars, pushVars, manifestVars, peerVars,
                   xferVars, walkVars, frameVars, matchVars>>

\* close(c.exitCh) on a channel that is closed already panics.
CloseExitCh(c) ==
    IF c.closes = 0
    THEN [c EXCEPT !.closes = 1]
    ELSE [c EXCEPT !.closes = 2, !.pump = "panic"]

\* handleTextFrame of an exit message: the exit code, and close(c.exitCh)
\* unless it is closed.
handleTextExit(c, code) ==
    [c EXCEPT !.exitCode = code, !.closes = IF @ = 0 THEN 1 ELSE @]

\* readPump returns: stderrW.Close() and stdoutW.Close(), which change
\* nothing on a pipe closed with an error.
PumpReturns(c) ==
    [c EXCEPT !.pump = "done", !.stdout = IF @ = "open" THEN "eof" ELSE @]

\* One round of readPump from ws.Read: an error of Read closes both pipes
\* with it unless exit was seen, and ends the pump; a text frame goes to
\* handleTextFrame; a stdout or stderr frame is written to its pipe, which
\* waits for the reader; a 0x03 frame closes exitCh and ends the pump.
PumpRead ==
    /\ Alive
    /\ wsc.pump = "read"
    /\ IF wsc.cancelled \/ (wire # <<>> /\ Head(wire) = "fin")
       THEN /\ wsc' = PumpReturns([wsc EXCEPT !.stdout = IF wsc.closes = 0
                                                         THEN "err" ELSE @])
            /\ wire' = wire
            /\ agentProc' = agentProc
       ELSE /\ wire # <<>>
            /\ wire' = Tail(wire)
            /\ agentProc' = agentProc
            /\ wsc' =
                 CASE Head(wire) = "info" -> [wsc EXCEPT !.session = TRUE]
                   [] Head(wire) = "exitText" -> handleTextExit(wsc, agentProc.code)
                   [] Head(wire) = "exit3" ->
                        LET c == CloseExitCh([wsc EXCEPT !.exitCode = agentProc.code])
                        IN  IF c.pump = "panic" THEN c ELSE PumpReturns(c)
                   [] Head(wire) \in {"err", "errLong"} ->
                        [wsc EXCEPT !.pump = "errWrite", !.held = Head(wire)]
                   [] OTHER -> [wsc EXCEPT !.pump = "outWrite", !.held = Head(wire)]
    /\ UNCHANGED <<toAgent, calls, mu, sess>>
    /\ UNCHANGED <<diffVars, tarVars, agentVars, pushVars, manifestVars, peerVars,
                   xferVars, walkVars, frameVars, matchVars>>

\* drainStderr: scanner.Scan() of a bufio.Scanner with the default limit of
\* 64 KiB for a line takes what the pump writes; at a line of 64 KiB it
\* returns false and drainStderr returns.
DrainRead ==
    /\ Alive
    /\ wsc.pump = "errWrite"
    /\ wsc.drain = "alive"
    /\ wsc' = [wsc EXCEPT !.pump = "read", !.held = "",
                          !.drain = IF wsc.held = "errLong" THEN "dead" ELSE @]
    /\ UNCHANGED <<wire, toAgent, agentProc, calls, mu, sess>>
    /\ UNCHANGED <<diffVars, tarVars, agentVars, pushVars, manifestVars, peerVars,
                   xferVars, walkVars, frameVars, matchVars>>

\* Session.readResponse: the next line of stdout, "eof" or "err" when the
\* stream has ended, "" while there is nothing to read.
readResponse ==
    IF wsc.pump = "outWrite" THEN wsc.held
    ELSE IF wsc.stdout = "eof" THEN "eof"
    ELSE IF wsc.stdout = "err" THEN "err"
    ELSE ""

\* The pump after the scanner took the line it was writing.
Taken == IF wsc.pump = "outWrite" THEN [wsc EXCEPT !.pump = "read", !.held = ""] ELSE wsc

\* OpenSession accepts every first line that parses.
OpenAcceptsAnyType(line) == line \notin {"eof", "err", "garbage"}

\* OpenSession after readResponse: a session only for a ready response.
OpenAccepts(line) == line = "ready"

\* OpenSession from its readResponse on: an error of the read or a response
\* that is not ready closes the connection and gives an error.
OpenRead ==
    /\ Alive
    /\ sess.pc = "open"
    /\ readResponse # ""
    /\ IF OpenAccepts(readResponse)
       THEN /\ sess' = [sess EXCEPT !.pc = "ready", !.first = readResponse]
            /\ wsc' = Taken
       ELSE /\ sess' = [sess EXCEPT !.pc = "failed", !.first = readResponse,
                                    !.closed = TRUE, !.err = TRUE]
            /\ wsc' = [Taken EXCEPT !.cancelled = TRUE]
    /\ UNCHANGED <<wire, toAgent, agentProc, calls, mu>>
    /\ UNCHANGED <<diffVars, tarVars, agentVars, pushVars, manifestVars, peerVars,
                   xferVars, walkVars, frameVars, matchVars>>

\* A goroutine of the driver calls a method of the session it was given.
CallStart(i, cmd) ==
    /\ Alive
    /\ sess.pc = "ready"
    /\ calls[i].pc = "idle"
    /\ calls' = [calls EXCEPT ![i] = [pc |-> "lock", cmd |-> cmd, res |-> ""]]
    /\ UNCHANGED <<wire, toAgent, agentProc, wsc, mu, sess>>
    /\ UNCHANGED <<diffVars, tarVars, agentVars, pushVars, manifestVars, peerVars,
                   xferVars, walkVars, frameVars, matchVars>>

\* A method that does not take the mutex.
NoLock(i) == mu' = i

\* s.mu.Lock()
Lock(i) == mu = 0 /\ mu' = i

\* defer s.mu.Unlock()
Unlock(i) == mu' = IF mu = i THEN 0 ELSE mu

CallLock(i) ==
    /\ Alive
    /\ calls[i].pc = "lock"
    /\ Lock(i)
    /\ calls' = [calls EXCEPT ![i].pc = IF calls[i].cmd = "close" THEN "quit" ELSE "send"]
    /\ UNCHANGED <<wire, toAgent, agentProc, wsc, sess>>
    /\ UNCHANGED <<diffVars, tarVars, agentVars, pushVars, manifestVars, peerVars,
                   xferVars, walkVars, frameVars, matchVars>>

\* c.ws.Write(c.ctx, ...) fails with the context cancelled; on a socket the
\* peer has closed it fails or its bytes are lost.
WriteStdin(line, fails) ==
    IF wsc.cancelled \/ (~agentProc.up /\ fails) THEN [ok |-> FALSE, to |-> toAgent]
    ELSE IF ~agentProc.up THEN [ok |-> TRUE, to |-> toAgent]
    ELSE [ok |-> TRUE, to |-> Append(toAgent, line)]

\* sendCmd of a request: on an error the method returns it.
CallSend(i) ==
    /\ Alive
    /\ calls[i].pc = "send"
    /\ \E fails \in BOOLEAN :
          LET w == WriteStdin([cmd |-> calls[i].cmd, by |-> i], fails)
          IN  /\ toAgent' = w.to
              /\ IF w.ok
                 THEN /\ calls' = [calls EXCEPT ![i].pc = "read"]
                      /\ mu' = mu
                 ELSE /\ calls' = [calls EXCEPT ![i] = CallReturned("err")]
                      /\ Unlock(i)
    /\ UNCHANGED <<wire, agentProc, wsc, sess>>
    /\ UNCHANGED <<diffVars, tarVars, agentVars, pushVars, manifestVars, peerVars,
                   xferVars, walkVars, frameVars, matchVars>>

\* One round of the read loop of a method on a line: "ok" at the terminal
\* response of the command, "err" at a failed read, a fatal error or a
\* response of another type, "more" at an entry of a manifest and at an
\* error that is not fatal.
ReadStep(cmd, line) ==
    IF line \in {"eof", "err", "garbage"} THEN "err"
    ELSE IF line = DoneType(cmd) THEN "ok"
    ELSE IF line = "fatal" THEN "err"
    ELSE IF line = "nonfatal" \/ (cmd = "manifest" /\ line = "entry") THEN "more"
    ELSE "err"

CallRead(i) ==
    /\ Alive
    /\ calls[i].pc = "read"
    /\ readResponse # ""
    /\ wsc' = Taken
    /\ IF ReadStep(calls[i].cmd, readResponse) = "more"
       THEN /\ calls' = calls
            /\ mu' = mu
       ELSE /\ calls' = [calls EXCEPT ![i] = CallReturned(ReadStep(calls[i].cmd,
                                                                readResponse))]
            /\ Unlock(i)
    /\ UNCHANGED <<wire, toAgent, agentProc, sess>>
    /\ UNCHANGED <<diffVars, tarVars, agentVars, pushVars, manifestVars, peerVars,
                   xferVars, walkVars, frameVars, matchVars>>

\* Session.Close: s.sendCmd(Request{Cmd: "quit"}), its error dropped.
CloseQuit(i) ==
    /\ Alive
    /\ calls[i].pc = "quit"
    /\ \E fails \in BOOLEAN :
          toAgent' = WriteStdin([cmd |-> "quit", by |-> i], fails).to
    /\ calls' = [calls EXCEPT ![i].pc = "wait"]
    /\ sess' = [sess EXCEPT !.steps = Append(@, "quit")]
    /\ UNCHANGED <<wire, agentProc, wsc, mu>>
    /\ UNCHANGED <<diffVars, tarVars, agentVars, pushVars, manifestVars, peerVars,
                   xferVars, walkVars, frameVars, matchVars>>

\* Session.Close: the select over done, time.After(5 * time.Second) and
\* ctx.Done() is left, by done only with exitCh closed.
CloseWait(i, byDone) ==
    /\ Alive
    /\ calls[i].pc = "wait"
    /\ byDone => wsc.closes > 0
    /\ calls' = [calls EXCEPT ![i].pc = "conn"]
    /\ sess' = [sess EXCEPT !.steps = Append(@, IF byDone THEN "done" ELSE "timeout")]
    /\ UNCHANGED <<wire, toAgent, agentProc, wsc, mu>>
    /\ UNCHANGED <<diffVars, tarVars, agentVars, pushVars, manifestVars, peerVars,
                   xferVars, walkVars, frameVars, matchVars>>

\* WSConn.Close: c.cancel(), and the error of ws.Close unless exitCh is
\* closed.
ConnClose(wsErr) == wsErr /\ wsc.closes = 0

\* Session.Close: closeErr := s.conn.Close()
CloseConn(i) ==
    /\ Alive
    /\ calls[i].pc = "conn"
    /\ \E wsErr \in BOOLEAN :
          /\ calls' = [calls EXCEPT ![i].pc = "rm",
                                    ![i].res = IF ConnClose(wsErr) THEN "err" ELSE "ok"]
    /\ wsc' = [wsc EXCEPT !.cancelled = TRUE]
    /\ sess' = [sess EXCEPT !.closed = TRUE, !.steps = Append(@, "close")]
    /\ UNCHANGED <<wire, toAgent, agentProc, mu>>
    /\ UNCHANGED <<diffVars, tarVars, agentVars, pushVars, manifestVars, peerVars,
                   xferVars, walkVars, frameVars, matchVars>>

\* Session.Close: ExecHTTP of rm -f on the binary, its result dropped, and
\* the return of closeErr.
CloseRemove(i) ==
    /\ Alive
    /\ calls[i].pc = "rm"
    /\ calls' = [calls EXCEPT ![i] = CallReturned(calls[i].res)]
    /\ sess' = [sess EXCEPT !.steps = Append(@, "rm")]
    /\ Unlock(i)
    /\ UNCHANGED <<wire, toAgent, agentProc, wsc>>
    /\ UNCHANGED <<diffVars, tarVars, agentVars, pushVars, manifestVars, peerVars,
                   xferVars, walkVars, frameVars, matchVars>>

ConnNext ==
    \/ AgentStart
    \/ AgentTake
    \/ AgentSend
    \/ \E long \in BOOLEAN : ServerStderr(long)
    \/ \E order \in ExitOrders : ServerExit(order)
    \/ PeerCloses
    \/ CtxCancel
    \/ PumpRead
    \/ DrainRead
    \/ OpenRead
    \/ \E i \in Callers : \E cmd \in CallCmds : CallStart(i, cmd)
    \/ \E i \in Callers : CallLock(i)
    \/ \E i \in Callers : CallSend(i)
    \/ \E i \in Callers : CallRead(i)
    \/ \E i \in Callers : CloseQuit(i)
    \/ \E i \in Callers : \E byDone \in BOOLEAN : CloseWait(i, byDone)
    \/ \E i \in Callers : CloseConn(i)
    \/ \E i \in Callers : CloseRemove(i)

\* The goroutines of the driver, the remote process and the server take
\* their steps, and the timer of Close fires; nobody has to call a method,
\* to cancel the context or to break the connection, and the remote process
\* need not write to stderr.
ConnFairness ==
    /\ WF_vars(AgentStart)
    /\ WF_vars(AgentTake)
    /\ WF_vars(AgentSend)
    /\ WF_vars(\E order \in ExitOrders : ServerExit(order))
    /\ WF_vars(PumpRead)
    /\ WF_vars(DrainRead)
    /\ WF_vars(OpenRead)
    /\ \A i \in Callers :
          /\ WF_vars(CallLock(i))
          /\ WF_vars(CallSend(i))
          /\ WF_vars(CallRead(i))
          /\ WF_vars(CloseQuit(i))
          /\ WF_vars(\E byDone \in BOOLEAN : CloseWait(i, byDone))
          /\ WF_vars(CloseConn(i))
          /\ WF_vars(CloseRemove(i))

SpecConn ==
    ConnInit /\ [][ConnNext]_vars /\ ConnFairness

-----------------------------------------------------------------------------
(* The walk specification: pack.WalkLocal with its pool of hashWorkers,     *)
(* one step per channel operation, called twice on one tree.                *)

\* runtime.NumCPU() is at most this.
MaxCPU == 3

\* The trees walked: those of the manifests, and /r with the files a, b
\* and c, once all readable and once with a b that cannot be read.
WalkTrees ==
    ManifestTrees
    \cup {SpriteBase @@ (RemoteRoot :> DirNode(DirPerm))
              @@ (JoinChild(RemoteRoot, <<"a">>) :> FileNode(420, DataA))
              @@ (JoinChild(RemoteRoot, <<"b">>) :> FileNode(0, DataB))
              @@ (JoinChild(RemoteRoot, <<"c">>) :> FileNode(420, DataC)),
          SpriteBase @@ (RemoteRoot :> DirNode(DirPerm))
              @@ (JoinChild(RemoteRoot, <<"a">>) :> FileNode(420, DataA))
              @@ (JoinChild(RemoteRoot, <<"b">>) :> FileNode(384, DataB))
              @@ (JoinChild(RemoteRoot, <<"c">>) :> FileNode(420, DataC))}

\* The directories walked: /r, a directory of it, a missing entry.
WalkDirs ==
    {RemoteRoot, JoinChild(RemoteRoot, <<"d">>), JoinChild(RemoteRoot, <<"x">>)}

\* The exclude lists of a walk: none, `d`, `b`.
WalkExcludes ==
    {<<>>, <<<<"d">>>>, <<<<"b">>>>}

\* A channel with room for one value only
ChanCapOne(js) ==
    1

\* make(chan fileJob, len(jobs)), make(chan hashResult, len(jobs))
ChanCap(js) ==
    Len(js)

NoChan == [buf |-> <<>>, cap |-> 0, closed |-> FALSE]
NoJob == [relPath |-> <<>>, absPath |-> <<>>]
NoHashResult == [err |-> "", entry |-> [Path |-> <<>>, Hash |-> NoHash, Mode |-> 0, Size |-> 0]]
NotReturned == [done |-> FALSE, err |-> "", manifest |-> <<>>]

NewWalker(round, first) ==
    [pc |-> "walk", round |-> round, spawned |-> 0, sent |-> 0, manifest |-> <<>>,
     ret |-> NotReturned, first |-> first]

WalkInit ==
    /\ XferIdle
    /\ ConnIdle
    /\ MatchIdle
    /\ FramesIdle
    /\ PeerIdle
    /\ DiffIdle
    /\ PushIdle
    /\ AgentIdle
    /\ ManifestIdle
    /\ hostFs \in WalkTrees
    /\ spriteFs = hostFs
    /\ fsBefore = hostFs
    /\ umask = 0
    /\ packArgs = NoPack
    /\ packed = NotPacked
    /\ archive = NoArchive
    /\ unpackArgs = NoUnpack
    /\ unpacked = NotUnpacked
    /\ walkArgs \in [dir : WalkDirs, excludes : WalkExcludes, cpus : 1..MaxCPU]
    /\ jobs = <<>>
    /\ jobCh = NoChan
    /\ resultCh = NoChan
    /\ wg = 0
    /\ hashers = <<>>
    /\ hashes = <<>>
    /\ walker = NewWalker(1, NotReturned)

\* return manifest, err
WalkReturns(err, manifest) ==
    walker' = [walker EXCEPT !.pc = "returned",
                             !.ret = [done |-> TRUE, err |-> err, manifest |-> manifest]]

\* WalkLocal up to the count of workers: [err, jobs, workers] of the walk
\* that queues the files.
walkQueued(fs, args) ==
    LET Queued(js) ==
            [err |-> "", jobs |-> js,
             workers |-> IF args.cpus > Len(js) THEN Len(js) ELSE args.cpus]
        Walked(vs) ==
            IF \E i \in 1..Len(vs) : vs[i].err # ""
            THEN [err |-> "walk", jobs |-> <<>>, workers |-> 0]
            ELSE Queued(fileJobs(args.excludes, vs))
    IN  Walked(WalkDir(fs, args.dir, args.excludes))

\* What the walk of this state queues
Queued == walkQueued(hostFs, walkArgs)

\* WalkLocal up to the making of the channels: the walk that queues the
\* files, the returns on an error of the walk and on no file, and the
\* channels and the workers to start.
WalkQueue ==
    /\ walker.pc = "walk"
    /\ walker' = IF Queued.workers = 0
                 THEN [walker EXCEPT !.pc = "returned",
                                     !.ret = [done |-> TRUE, err |-> Queued.err,
                                              manifest |-> <<>>]]
                 ELSE [walker EXCEPT !.pc = "spawn"]
    /\ jobs' = Queued.jobs
    /\ jobCh' = [buf |-> <<>>, cap |-> ChanCap(Queued.jobs), closed |-> FALSE]
    /\ resultCh' = [buf |-> <<>>, cap |-> ChanCap(Queued.jobs), closed |-> FALSE]
    /\ hashers' = [w \in 1..Queued.workers |->
                      [pc |-> "none", job |-> NoJob, res |-> NoHashResult]]
    /\ hashes' = [i \in 1..Len(Queued.jobs) |-> 0]
    /\ UNCHANGED <<walkArgs, wg>>
    /\ UNCHANGED <<diffVars, tarVars, agentVars, pushVars, manifestVars, peerVars,
                   xferVars, connVars, frameVars, matchVars>>

\* wg.Add(1); go func() { defer wg.Done(); hashWorker(jobCh, resultCh) }()
WalkSpawn ==
    /\ walker.pc = "spawn"
    /\ wg' = wg + 1
    /\ hashers' = [hashers EXCEPT ![walker.spawned + 1].pc = "range"]
    /\ walker' = [walker EXCEPT !.spawned = @ + 1,
                                !.pc = IF walker.spawned + 1 = Len(hashers)
                                       THEN "send" ELSE "spawn"]
    /\ UNCHANGED <<walkArgs, jobs, jobCh, resultCh, hashes>>
    /\ UNCHANGED <<diffVars, tarVars, agentVars, pushVars, manifestVars, peerVars,
                   xferVars, connVars, frameVars, matchVars>>

\* jobCh <- j, which waits while the channel is full
WalkSend ==
    /\ walker.pc = "send"
    /\ walker.sent < Len(jobs)
    /\ Len(jobCh.buf) < jobCh.cap
    /\ jobCh' = [jobCh EXCEPT !.buf = Append(@, jobs[walker.sent + 1])]
    /\ walker' = [walker EXCEPT !.sent = @ + 1]
    /\ UNCHANGED <<walkArgs, jobs, resultCh, wg, hashers, hashes>>
    /\ UNCHANGED <<diffVars, tarVars, agentVars, pushVars, manifestVars, peerVars,
                   xferVars, connVars, frameVars, matchVars>>

\* close(jobCh)
WalkCloseJobs ==
    /\ walker.pc = "send"
    /\ walker.sent = Len(jobs)
    /\ jobCh' = [jobCh EXCEPT !.closed = TRUE]
    /\ walker' = [walker EXCEPT !.pc = "wait"]
    /\ UNCHANGED <<walkArgs, jobs, resultCh, wg, hashers, hashes>>
    /\ UNCHANGED <<diffVars, tarVars, agentVars, pushVars, manifestVars, peerVars,
                   xferVars, connVars, frameVars, matchVars>>

\* wg.Wait(); close(resultCh)
WalkWait ==
    /\ walker.pc = "wait"
    /\ wg = 0
    /\ resultCh' = [resultCh EXCEPT !.closed = TRUE]
    /\ walker' = [walker EXCEPT !.pc = "collect"]
    /\ UNCHANGED <<walkArgs, jobs, jobCh, wg, hashers, hashes>>
    /\ UNCHANGED <<diffVars, tarVars, agentVars, pushVars, manifestVars, peerVars,
                   xferVars, connVars, frameVars, matchVars>>

\* for r := range resultCh: one result, or the end of the closed channel
WalkCollect ==
    /\ walker.pc = "collect"
    /\ resultCh.buf # <<>> \/ resultCh.closed
    /\ LET Got(r) ==
               IF r.err # ""
               THEN WalkReturns(r.err, <<>>)
               ELSE walker' = [walker EXCEPT !.manifest =
                                  [p \in DOMAIN @ \cup {r.entry.Path} |->
                                      IF p = r.entry.Path THEN r.entry ELSE @[p]]]
       IN  IF resultCh.buf = <<>>
           THEN WalkReturns("", walker.manifest) /\ resultCh' = resultCh
           ELSE Got(Head(resultCh.buf))
                /\ resultCh' = [resultCh EXCEPT !.buf = Tail(@)]
    /\ UNCHANGED <<walkArgs, jobs, jobCh, wg, hashers, hashes>>
    /\ UNCHANGED <<diffVars, tarVars, agentVars, pushVars, manifestVars, peerVars,
                   xferVars, connVars, frameVars, matchVars>>

\* The caller walks the same tree once more.
WalkAgain ==
    /\ walker.pc = "returned"
    /\ walker.round = 1
    /\ walker' = NewWalker(2, walker.ret)
    /\ jobs' = <<>>
    /\ jobCh' = NoChan
    /\ resultCh' = NoChan
    /\ hashers' = <<>>
    /\ hashes' = <<>>
    /\ UNCHANGED <<walkArgs, wg>>
    /\ UNCHANGED <<diffVars, tarVars, agentVars, pushVars, manifestVars, peerVars,
                   xferVars, connVars, frameVars, matchVars>>

\* hashWorker, for j := range jobs: a file taken from the channel, or the
\* end of the closed channel and wg.Done()
HashRange(w) ==
    /\ w \in DOMAIN hashers
    /\ hashers[w].pc = "range"
    /\ jobCh.buf # <<>> \/ jobCh.closed
    /\ IF jobCh.buf = <<>>
       THEN /\ hashers' = [hashers EXCEPT ![w].pc = "done"]
            /\ wg' = wg - 1
            /\ jobCh' = jobCh
       ELSE /\ hashers' = [hashers EXCEPT ![w].pc = "hash", ![w].job = Head(jobCh.buf)]
            /\ jobCh' = [jobCh EXCEPT !.buf = Tail(@)]
            /\ wg' = wg
    /\ UNCHANGED <<walkArgs, jobs, resultCh, hashes, walker>>
    /\ UNCHANGED <<diffVars, tarVars, agentVars, pushVars, manifestVars, peerVars,
                   xferVars, connVars, frameVars, matchVars>>

\* hashWorker: entry, err := hashFile(j.absPath, j.relPath, buf)
HashFile(w) ==
    /\ w \in DOMAIN hashers
    /\ hashers[w].pc = "hash"
    /\ LET Hashed(job, i) ==
               /\ hashers' = [hashers EXCEPT
                                 ![w].pc = "send",
                                 ![w].res = hashFile(hostFs, job.absPath, job.relPath)]
               /\ hashes' = [hashes EXCEPT ![i] = @ + 1]
       IN  Hashed(hashers[w].job, CHOOSE i \in 1..Len(jobs) : jobs[i] = hashers[w].job)
    /\ UNCHANGED <<walkArgs, jobs, jobCh, resultCh, wg, walker>>
    /\ UNCHANGED <<diffVars, tarVars, agentVars, pushVars, manifestVars, peerVars,
                   xferVars, connVars, frameVars, matchVars>>

\* hashWorker: results <- hashResult{entry, err}, which waits while the
\* channel is full
HashSend(w) ==
    /\ w \in DOMAIN hashers
    /\ hashers[w].pc = "send"
    /\ Len(resultCh.buf) < resultCh.cap
    /\ resultCh' = [resultCh EXCEPT !.buf = Append(@, hashers[w].res)]
    /\ hashers' = [hashers EXCEPT ![w].pc = "range", ![w].job = NoJob,
                                  ![w].res = NoHashResult]
    /\ UNCHANGED <<walkArgs, jobs, jobCh, wg, hashes, walker>>
    /\ UNCHANGED <<diffVars, tarVars, agentVars, pushVars, manifestVars, peerVars,
                   xferVars, connVars, frameVars, matchVars>>

WalkNext ==
    \/ WalkQueue
    \/ WalkSpawn
    \/ WalkSend
    \/ WalkCloseJobs
    \/ WalkWait
    \/ WalkCollect
    \/ WalkAgain
    \/ \E w \in 1..MaxCPU : HashRange(w)
    \/ \E w \in 1..MaxCPU : HashFile(w)
    \/ \E w \in 1..MaxCPU : HashSend(w)

\* The worker is in hashFile, the one state that enables HashFile(w).
Hashing(w) ==
    w \in DOMAIN hashers /\ hashers[w].pc = "hash"

\* Every goroutine of the pool that can take a step takes one in the end;
\* for hashFile, which is always enabled while the worker is in it, weak
\* fairness is that the worker is not in it for ever.
WalkFairness ==
    /\ WF_vars(WalkSpawn \/ WalkSend \/ WalkCloseJobs \/ WalkWait \/ WalkCollect)
    /\ \A w \in 1..MaxCPU : WF_vars(HashRange(w) \/ HashSend(w))
    /\ \A w \in 1..MaxCPU : []<>~Hashing(w)

SpecWalk ==
    WalkInit /\ [][WalkNext]_vars /\ WalkFairness

-----------------------------------------------------------------------------
(* The frame specification: one WSConn whose peer sends any sequence of     *)
(* messages, with the bytes of every message, and whose owner writes        *)
(* requests and the end of stdin.                                           *)

\* The most messages the peer sends, and the most the owner writes.
MaxFrames == 3
MaxWrites == 2

PrefixStdin == 0
PrefixStdout == 1
PrefixStderr == 2
PrefixExit == 3
PrefixStdinEOF == 4

\* A binary message with its bytes, and a text message with what
\* handleTextFrame unmarshals from it.
Binary(bytes) == [typ |-> "binary", data |-> bytes, msg |-> "", code |-> 0]
Text(type, code) == [typ |-> "text", data |-> <<>>, msg |-> type, code |-> code]

\* The messages a peer sends: an empty one, stdout and stderr payloads of
\* zero, one and two bytes, exits with and without a code, the two prefixes
\* of stdin, a prefix that is none of the five, and the text messages
\* session_info, exit, one of another type and one that is no JSON.
PeerFrames ==
    {Binary(<<>>),
     Binary(<<PrefixStdout>>), Binary(<<PrefixStdout, 7>>), Binary(<<PrefixStdout, 8, 9>>),
     Binary(<<PrefixStderr, 7>>), Binary(<<PrefixStderr, 8, 9>>),
     Binary(<<PrefixExit>>), Binary(<<PrefixExit, 2>>),
     Binary(<<PrefixStdin, 7>>), Binary(<<PrefixStdinEOF>>), Binary(<<5, 7>>),
     Text("session_info", 0), Text("exit", 2), Text("other", 0), Text("", 0)}

\* The lines written to stdin
StdinData == {<<>>, <<7>>, <<8, 9>>}

FramesInit ==
    /\ XferIdle
    /\ ConnIdle
    /\ MatchIdle
    /\ WalkIdle
    /\ PeerIdle
    /\ DiffIdle
    /\ PushIdle
    /\ AgentIdle
    /\ ManifestIdle
    /\ TarIdle
    /\ wsIn \in SeqsUpTo(PeerFrames, MaxFrames)
    /\ wsRead = <<>>
    /\ wsOut = <<>>
    /\ readPump = [pc |-> "read", held |-> <<>>]
    /\ stdoutBytes = <<>>
    /\ stderrBytes = <<>>
    /\ exitCh = [closed |-> FALSE, code |-> 0]

\* close(c.exitCh) of readPump, which panics on a closed channel
closeExit(code) ==
    IF exitCh.closed
    THEN /\ readPump' = [pc |-> "panic", held |-> <<>>]
         /\ exitCh' = [exitCh EXCEPT !.code = code]
    ELSE /\ readPump' = [pc |-> "done", held |-> <<>>]
         /\ exitCh' = [closed |-> TRUE, code |-> code]

\* handleTextFrame(data): the exit message sets the code and closes exitCh
\* unless it is closed; every other message leaves the streams alone.
handleTextFrame(f) ==
    /\ exitCh' = IF f.msg = "exit" THEN [closed |-> TRUE, code |-> f.code] ELSE exitCh
    /\ readPump' = readPump

\* One turn of the loop of readPump on the message that ws.Read returned
PumpFrame(f) ==
    IF f.typ = "text" THEN handleTextFrame(f)
    ELSE IF f.data = <<>> THEN UNCHANGED <<readPump, exitCh>>
    ELSE IF Head(f.data) = PrefixStdout
         THEN readPump' = [pc |-> "stdoutW", held |-> Tail(f.data)] /\ exitCh' = exitCh
    ELSE IF Head(f.data) = PrefixStderr
         THEN readPump' = [pc |-> "stderrW", held |-> Tail(f.data)] /\ exitCh' = exitCh
    ELSE IF Head(f.data) = PrefixExit
         THEN closeExit(IF Len(f.data) > 1 THEN f.data[2] ELSE exitCh.code)
    ELSE UNCHANGED <<readPump, exitCh>>

\* readPump: c.ws.Read(c.ctx) returns a message, or an error when the peer
\* has sent all it sends, and the pump returns.
FrameRead ==
    /\ readPump.pc = "read"
    /\ IF wsIn = <<>>
       THEN /\ readPump' = [pc |-> "done", held |-> <<>>]
            /\ UNCHANGED <<wsIn, wsRead, exitCh>>
       ELSE /\ wsIn' = Tail(wsIn)
            /\ wsRead' = Append(wsRead, Head(wsIn))
            /\ PumpFrame(Head(wsIn))
    /\ UNCHANGED <<wsOut, stdoutBytes, stderrBytes>>
    /\ UNCHANGED <<diffVars, tarVars, agentVars, pushVars, manifestVars, peerVars,
                   xferVars, connVars, walkVars, matchVars>>

\* A read of Stdout() takes what c.stdoutW.Write(data[1:]) is writing.
StdoutRead ==
    /\ readPump.pc = "stdoutW"
    /\ stdoutBytes' = stdoutBytes \o readPump.held
    /\ readPump' = [pc |-> "read", held |-> <<>>]
    /\ UNCHANGED <<wsIn, wsRead, wsOut, stderrBytes, exitCh>>
    /\ UNCHANGED <<diffVars, tarVars, agentVars, pushVars, manifestVars, peerVars,
                   xferVars, connVars, walkVars, matchVars>>

\* A read of Stderr() takes what c.stderrW.Write(data[1:]) is writing.
StderrRead ==
    /\ readPump.pc = "stderrW"
    /\ stderrBytes' = stderrBytes \o readPump.held
    /\ readPump' = [pc |-> "read", held |-> <<>>]
    /\ UNCHANGED <<wsIn, wsRead, wsOut, stdoutBytes, exitCh>>
    /\ UNCHANGED <<diffVars, tarVars, agentVars, pushVars, manifestVars, peerVars,
                   xferVars, connVars, walkVars, matchVars>>

\* WSConn.WriteStdin(data): one binary message, 0x00 and the data
FrameWriteStdin(data) ==
    /\ Len(wsOut) < MaxWrites
    /\ wsOut' = Append(wsOut, [call |-> "WriteStdin", arg |-> data,
                               sent |-> <<Binary(<<PrefixStdin>> \o data)>>])
    /\ UNCHANGED <<wsIn, wsRead, readPump, stdoutBytes, stderrBytes, exitCh>>
    /\ UNCHANGED <<diffVars, tarVars, agentVars, pushVars, manifestVars, peerVars,
                   xferVars, connVars, walkVars, matchVars>>

\* WSConn.CloseStdin(): one binary message, 0x04
FrameCloseStdin ==
    /\ Len(wsOut) < MaxWrites
    /\ wsOut' = Append(wsOut, [call |-> "CloseStdin", arg |-> <<>>,
                               sent |-> <<Binary(<<PrefixStdinEOF>>)>>])
    /\ UNCHANGED <<wsIn, wsRead, readPump, stdoutBytes, stderrBytes, exitCh>>
    /\ UNCHANGED <<diffVars, tarVars, agentVars, pushVars, manifestVars, peerVars,
                   xferVars, connVars, walkVars, matchVars>>

FramesNext ==
    \/ FrameRead
    \/ StdoutRead
    \/ StderrRead
    \/ \E data \in StdinData : FrameWriteStdin(data)
    \/ FrameCloseStdin

SpecFrames ==
    FramesInit /\ [][FramesNext]_vars

-----------------------------------------------------------------------------
(* SpecMatch: one ExcludeMatcher and the paths put to it *)

MaxPatterns == 2

\* The patterns of the lists: d, d/, *, a*, ?, **, **/a, d/a, d/**, the empty
\* pattern and /
MatchPatterns ==
    {<<"d">>, <<"d", "/">>, <<"*">>, <<"a", "*">>, <<"?">>, <<"*", "*">>,
     <<"*", "*", "/", "a">>, <<"d", "/", "a">>, <<"d", "/", "*", "*">>, <<>>, <<"/">>}

\* The paths put to the matcher: a, d, da, d/a, e/d, e/d/a, e/da/a and the
\* empty path
MatchPaths ==
    {<<"a">>, <<"d">>, <<"d", "a">>, <<"d", "/", "a">>, <<"e", "/", "d">>,
     <<"e", "/", "d", "/", "a">>, <<"e", "/", "d", "a", "/", "a">>, <<>>}

MatchInit ==
    /\ XferIdle
    /\ ConnIdle
    /\ WalkIdle
    /\ FramesIdle
    /\ PeerIdle
    /\ DiffIdle
    /\ PushIdle
    /\ AgentIdle
    /\ ManifestIdle
    /\ TarIdle
    /\ matcher = NoMatcher
    /\ matched = NotMatched

\* NewExcludeMatcher(patterns)
NewExcludeMatcher(patterns) ==
    /\ ~matcher.made
    /\ matcher' = [made |-> TRUE, patterns |-> patterns]
    /\ UNCHANGED matched
    /\ UNCHANGED <<diffVars, tarVars, agentVars, pushVars, manifestVars, peerVars,
                   xferVars, connVars, walkVars, frameVars>>

\* m.Match(relPath)
MatcherMatch(relPath) ==
    /\ matcher.made
    /\ matched' = [called |-> TRUE, relPath |-> relPath,
                   result |-> ExcludeMatch(matcher.patterns, relPath)]
    /\ UNCHANGED matcher
    /\ UNCHANGED <<diffVars, tarVars, agentVars, pushVars, manifestVars, peerVars,
                   xferVars, connVars, walkVars, frameVars>>

MatchNext ==
    \/ \E patterns \in SeqsUpTo(MatchPatterns, MaxPatterns) : NewExcludeMatcher(patterns)
    \/ \E relPath \in MatchPaths : MatcherMatch(relPath)

SpecMatch ==
    MatchInit /\ [][MatchNext]_vars

-----------------------------------------------------------------------------
(* Claims about ComputeDiff, checked under SpecDiff *)

Returned ==
    result # NoResult

StrictlyAscending(seq) ==
    \A i \in 1..(Len(seq) - 1) : StrLess(seq[i], seq[i + 1])

\* C1: the set of uploads is exactly the source paths that the target lacks
\* or holds with another hash; the set of deletes is exactly the target paths
\* the source lacks when deleteEnabled, and empty when it is not.
C1_DiffSets ==
    Returned =>
        /\ Range(result.Uploads) =
               {p \in DOMAIN local :
                   p \notin DOMAIN remote \/ remote[p].Hash # local[p].Hash}
        /\ Range(result.Deletes) =
               IF deleteEnabled
               THEN {p \in DOMAIN remote : p \notin DOMAIN local}
               ELSE {}

\* C1 witness: a diff with delete enabled that uploads a path whose hash
\* changed and a path the target lacks, and deletes a path.
C1_Witness ==
    /\ Returned
    /\ deleteEnabled
    /\ \E p \in Range(result.Uploads) : p \in DOMAIN remote
    /\ \E p \in Range(result.Uploads) : p \notin DOMAIN remote
    /\ result.Deletes # <<>>

\* C7: uploads and deletes share no path, each is strictly ascending in byte
\* order, and every order of the map iterations gives the same two sequences.
C7_DisjointSortedDeterministic ==
    Returned =>
        /\ Range(result.Uploads) \cap Range(result.Deletes) = {}
        /\ StrictlyAscending(result.Uploads)
        /\ StrictlyAscending(result.Deletes)
        /\ \A o1 \in RangeOrders(DOMAIN local), o2 \in RangeOrders(DOMAIN remote) :
               ComputeDiff(local, remote, deleteEnabled, o1, o2) = result

\* C7 witness: a diff that returned two uploads and two deletes.
C7_Witness ==
    /\ Returned
    /\ Len(result.Uploads) >= 2
    /\ Len(result.Deletes) >= 2

SameHashes ==
    /\ DOMAIN local = DOMAIN remote
    /\ \A p \in DOMAIN local : local[p].Hash = remote[p].Hash

\* C8: manifests with the same keys and the same hash for every path give
\* empty uploads and deletes with delete enabled, and a path whose entries
\* differ only in mode or size is never uploaded.
C8_SameHashNoUpload ==
    Returned =>
        /\ (SameHashes /\ deleteEnabled) =>
               (result.Uploads = <<>> /\ result.Deletes = <<>>)
        /\ \A p \in DOMAIN local \cap DOMAIN remote :
               local[p].Hash = remote[p].Hash => p \notin Range(result.Uploads)

\* C8 witness: a diff with delete enabled of two manifests with the same
\* hashes where one path differs in mode and size.
C8_Witness ==
    /\ Returned
    /\ deleteEnabled
    /\ SameHashes
    /\ \E p \in DOMAIN local :
           /\ local[p].Mode # remote[p].Mode
           /\ local[p].Size # remote[p].Size

-----------------------------------------------------------------------------
(* Claims about PackTar and UnpackTar, under SpecTar *)

\* The headers PackTar wrote to its writer
PackedHeaders == packed.tar.hdrs

\* The name has a `..` component
HasDotDotSegment(name) ==
    DotDot \in Range(Split(name))

\* The name of a directory header without its trailing separator
DirHeaderPath(name) ==
    SubSeq(name, 1, Len(name) - 1)

\* C5: every header PackTar writes, whether it then succeeds or returns an
\* error, has a name that is not absolute and has no `..` component; a
\* regular-file header is written only for a path that passes the safety
\* predicate and the containment check, a directory header only for an
\* ancestor of such a path.
C5_PackedHeadersSafe ==
    packed.done =>
        \A i \in 1..Len(PackedHeaders) :
            LET h == PackedHeaders[i]
            IN  /\ ~IsAbs(h.Name)
                /\ ~HasDotDotSegment(h.Name)
                /\ h.Typeflag = "reg" => PackGate(packArgs.dir, h.Name) = ""
                /\ h.Typeflag = "dir" =>
                       \E j \in 1..Len(packArgs.filePaths) :
                           /\ PackGate(packArgs.dir, packArgs.filePaths[j]) = ""
                           /\ DirHeaderPath(h.Name) \in
                                  Range(DirPrefixes(Split(Dir(packArgs.filePaths[j]))))

\* The entries of the sprite that UnpackTar created, removed or changed
Touched ==
    {q \in DOMAIN spriteFs \cup DOMAIN fsBefore :
        \/ q \notin DOMAIN fsBefore
        \/ q \notin DOMAIN spriteFs
        \/ spriteFs[q] # fsBefore[q]}

\* q is the directory root or lies under it
AtOrUnder(root, q) ==
    q = root \/ HasPrefix(q, root \o Slash)

\* C4: for every archive UnpackTar creates or writes no file or directory
\* outside the extract root, and an archive with a header whose cleaned name
\* is refused makes the extraction return an error.
C4_ExtractStaysUnderRoot ==
    unpacked.done =>
        /\ \A q \in Touched : AtOrUnder(unpackArgs.dir, q)
        /\ (\E i \in 1..Len(archive.tar.hdrs) :
                UnpackGate(unpackArgs.dir, Clean(archive.tar.hdrs[i].Name)) # "")
           => unpacked.err # ""

\* The regular-file headers of the archive that are the last for their path
LastRegHeaders ==
    {i \in 1..Len(archive.tar.hdrs) :
        /\ archive.tar.hdrs[i].Typeflag = "reg"
        /\ \A j \in (i + 1)..Len(archive.tar.hdrs) :
               Clean(archive.tar.hdrs[j].Name) # Clean(archive.tar.hdrs[i].Name)}

\* C10: after a successful UnpackTar the file at root/p of every
\* regular-file header has the archived bytes and the permission bits
\* header mode & 0777, whatever was at root/p before; and after PackTar of
\* the paths P under R and UnpackTar into R', every p of P is a file at R'/p
\* with the bytes and the low nine mode bits of R/p.
C10_ExtractedBytesAndMode ==
    (unpacked.done /\ unpacked.err = "") =>
        /\ \A i \in LastRegHeaders :
               LET h == archive.tar.hdrs[i]
                   st == Stat(spriteFs, Join(unpackArgs.dir, Clean(h.Name)))
               IN  /\ st.err = ""
                   /\ st.node.t = "file"
                   /\ st.node.data = h.body
                   /\ st.node.mode = BitAnd(h.Mode, PermMask)
        /\ (packed.done /\ packed.err = "") =>
               \A j \in 1..Len(packArgs.filePaths) :
                   LET from == Stat(hostFs, Join(packArgs.dir, packArgs.filePaths[j]))
                       to == Stat(spriteFs, Join(unpackArgs.dir, packArgs.filePaths[j]))
                   IN  /\ to.err = ""
                       /\ to.node.t = "file"
                       /\ to.node.data = from.node.data
                       /\ Perm(to.node.mode) = Perm(from.node.mode)

-----------------------------------------------------------------------------
(* Claims about the agent, under SpecAgent *)

\* The path resolves above the directory it is joined to
ResolvesAbove(p) ==
    Clean(p) = DotDot \/ HasPrefix(Clean(p), <<".", ".", "/">>)

\* The path fails the safety predicate for relative paths, or joined to dir
\* falls outside dir
UnsafePath(dir, p) ==
    \/ p = <<>>
    \/ NUL \in Range(p)
    \/ IsAbs(p)
    \/ Clean(p) = Dot
    \/ ResolvesAbove(p)
    \/ ~IsWithinDir(dir, Join(dir, p))

\* The request served last is a pack, a delete or a transfer with an unsafe path
UnsafeRequest ==
    /\ request.Cmd \in {"pack", "delete", "transfer"}
    /\ \E i \in 1..Len(request.Paths) : UnsafePath(request.Dir, request.Paths[i])

\* The only response is a fatal error
OnlyFatal ==
    /\ Len(responses) = 1
    /\ responses[1].Type = "error"
    /\ responses[1].Fatal

\* The text of the message holds "escapes": one of its formats does
MentionsEscapes(msg) ==
    \E i \in 1..Len(msg) :
        msg[i] \in {"path escapes base directory: %s", "path escapes dir: %s"}

\* The error the Session method returns to the driver for the request
DriverError ==
    ReadUntilDone(responses, 1, request.Cmd).err

\* The first unsafe path of the request
FirstUnsafe ==
    request.Paths[CHOOSE i \in 1..Len(request.Paths) :
                      /\ UnsafePath(request.Dir, request.Paths[i])
                      /\ \A j \in 1..(i - 1) : ~UnsafePath(request.Dir, request.Paths[j])]

NotTmpPrefixed(p) ==
    p = <<>> \/ ~HasPrefix(p, TmpDir \o Slash)

\* The entries of the sprite that the last request created, removed or changed
Changed ==
    {q \in DOMAIN spriteFs \cup DOMAIN fsBefore :
        \/ q \notin DOMAIN fsBefore
        \/ q \notin DOMAIN spriteFs
        \/ spriteFs[q] # fsBefore[q]}

\* C6: a pack whose dest, and an extract whose src, is empty or does not
\* begin with /tmp/ gets a fatal error and changes nothing; and the scratch
\* file a pack creates or removes, the one an extract removes, and the ones
\* removed at exit all lie under /tmp.
C6_ScratchUnderTmp ==
    /\ (request.Cmd = "pack" /\ NotTmpPrefixed(request.Dest))
       => OnlyFatal /\ spriteFs = fsBefore
    /\ (request.Cmd = "extract" /\ NotTmpPrefixed(request.Src))
       => OnlyFatal /\ spriteFs = fsBefore
    /\ request.Cmd \in {"pack", "quit"}
       => \A q \in Changed : HasPrefix(q, TmpDir \o Slash)
    /\ (request.Cmd = "extract" /\ ReadUntilDone(responses, 1, "extract").ok)
       => \A q \in DOMAIN fsBefore \ DOMAIN spriteFs : HasPrefix(q, TmpDir \o Slash)

-----------------------------------------------------------------------------
(* Claims about the push *)

\* localToSpritePush returned nil after a push that was no dry run.
PushSucceeded ==
    pc = "returned" /\ pushErr = <<>> /\ ~pushArgs.dryRun

\* The uploads and deletes of the push are computed.
PushDiffed ==
    \/ pc \in {"pack", "fswrite", "extract", "delete"}
    \/ pc \in {"close", "returned"} /\ pushErr = <<>>

\* The remote file at the relative path p has the bytes of the local file.
SameBytes(p) ==
    LET Both(l, r) ==
            /\ l.err = ""
            /\ r.err = ""
            /\ r.node.t = "file"
            /\ r.node.data = l.node.data
            /\ r.node.tar = l.node.tar
    IN  Both(ReadFile(hostFs, Join(pushArgs.localDir, p)),
             Stat(spriteFs, Join(pushArgs.remoteDir, p)))

\* The remote file at p has the permission bits of the local file.
SamePerm(p) ==
    LET Both(l, r) ==
            l.err = "" /\ r.err = "" /\ Perm(r.node.mode) = Perm(l.node.mode)
    IN  Both(Stat(hostFs, Join(pushArgs.localDir, p)),
             Stat(spriteFs, Join(pushArgs.remoteDir, p)))

\* Nothing is at the relative path p of the remote directory.
Absent(p) ==
    Lstat(spriteFs, Join(pushArgs.remoteDir, p)).err # ""

\* The regular files the remote directory held before the push, as paths
\* relative to it
RemoteFilesBefore ==
    {Rel(pushArgs.remoteDir, q).rel :
        q \in {x \in Below(fsBefore, pushArgs.remoteDir) : fsBefore[x].t = "file"}}

\* The remote file p is what it was before the push.
Unchanged(p) ==
    LET At(q) == q \in DOMAIN spriteFs /\ spriteFs[q] = fsBefore[q]
    IN  At(JoinChild(pushArgs.remoteDir, p))

\* The diff of the local tree against the remote tree as it is now, with
\* delete enabled, is empty whatever the orders of the range loops.
RediffEmpty ==
    LET Empty(l, r) ==
            /\ l.err = ""
            /\ \A o1 \in RangeOrders(DOMAIN l.manifest), o2 \in RangeOrders(DOMAIN r) :
                   ComputeDiff(l.manifest, r, TRUE, o1, o2)
                       = [Uploads |-> <<>>, Deletes |-> <<>>]
        Listed(l, h) ==
            Empty(l, EntriesToManifest(entriesRead(h.out, Len(h.out))))
    IN  Listed(WalkLocal(hostFs, pushArgs.localDir, pushArgs.excludes),
               handleManifest(spriteFs, <<>>,
                              [Request("manifest") EXCEPT !.Dir = pushArgs.remoteDir,
                                                          !.Excludes = pushArgs.excludes]))

\* C2: after a push with delete enabled into an existing remote directory
\* that returned success, every uploaded path has the local file's bytes,
\* every deleted path is absent, every remote file in neither list is
\* unchanged, and the diff computed again has no uploads and no deletes.
C2_PushPostState ==
    (PushSucceeded /\ pushArgs.deleteOn /\ exists) =>
        /\ \A i \in 1..Len(result.Uploads) : SameBytes(result.Uploads[i])
        /\ \A i \in 1..Len(result.Deletes) : Absent(result.Deletes[i])
        /\ \A p \in RemoteFilesBefore :
               (p \notin Range(result.Uploads) /\ p \notin Range(result.Deletes))
                   => Unchanged(p)
        /\ RediffEmpty

\* C9: when the remote manifest reports exists=false the uploads are every
\* path of the local manifest and the deletes are empty; after a successful
\* push that uploaded something the target directory exists and every file of
\* the local manifest is there with the same bytes and permission bits.
C9_BlindPush ==
    /\ (PushDiffed /\ ~exists) =>
           /\ Range(result.Uploads) = DOMAIN local
           /\ Len(result.Uploads) = Cardinality(DOMAIN local)
           /\ result.Deletes = <<>>
    /\ (PushSucceeded /\ ~exists /\ result.Uploads # <<>>) =>
           /\ Stat(spriteFs, pushArgs.remoteDir).err = ""
           /\ Stat(spriteFs, pushArgs.remoteDir).node.t = "dir"
           /\ \A p \in DOMAIN local : SameBytes(p) /\ SamePerm(p)

\* Some response of out is a fatal error.
AnsweredFatal(out) ==
    \E i \in 1..Len(out) : out[i].Type = "error" /\ out[i].Fatal

\* s is the beginning of t.
IsPrefix(s, t) ==
    Len(s) <= Len(t) /\ \A i \in 1..Len(s) : s[i] = t[i]

-----------------------------------------------------------------------------
(* Claims about the manifests, under SpecManifest *)

\* The entries of the tree fs strictly below the directory dir, none of them
\* reached through a symbolic link: a file system has no entry below a link.
EntriesBelow(fs, dir) ==
    {q \in DOMAIN fs : /\ Len(q) > Len(dir) + 1
                       /\ SubSeq(q, 1, Len(dir) + 1) = dir \o <<"/">>}

\* The path of q relative to dir
RelTo(dir, q) ==
    SubSeq(q, Len(dir) + 2, Len(q))

\* The directories above the relative path rel
AncestorsOf(rel) ==
    {SubSeq(rel, 1, i - 1) : i \in {j \in 2..Len(rel) : rel[j] = "/"}}

\* The paths a manifest of dir is to hold: the regular files below dir that
\* the exclude list matches neither themselves nor by a directory above them.
ManifestPaths(fs, dir, excludes) ==
    IF dir \notin DOMAIN fs \/ fs[dir].t # "dir" THEN {}
    ELSE {RelTo(dir, q) :
            q \in {x \in EntriesBelow(fs, dir) :
                     /\ fs[x].t = "file"
                     /\ ~ExcludeMatch(excludes, RelTo(dir, x))
                     /\ \A anc \in AncestorsOf(RelTo(dir, x)) :
                            ~ExcludeMatch(excludes, anc)}}

\* No entry at or below dir is unreadable: the walk meets no I/O error.
AllReadable(fs, dir) ==
    /\ Lstat(fs, dir).err = ""
    /\ \A q \in EntriesBelow(fs, dir) \cup {dir} :
           q \in DOMAIN fs => (fs[q].t = "link" \/ OwnerRead(fs[q].mode))

\* C12: when nothing at or below the directory is unreadable, the manifest
\* of the local walker and the entries the agent sends both hold exactly
\* the regular files below the directory that are reached through no
\* symbolic link and that the exclude list matches neither themselves nor by
\* a directory above them, each path once; directories and symbolic links
\* give no entry.
C12_ManifestHoldsRegularFiles ==
    LET Paths == ManifestPaths(spriteFs, manifestArgs.dir, manifestArgs.excludes)
        Sent == {i \in 1..Len(responses) : responses[i].Type = "entry"}
    IN  AllReadable(spriteFs, manifestArgs.dir) =>
            /\ walked.done =>
                   walked.err = "" /\ DOMAIN walked.manifest = Paths
            /\ request # NoRequest =>
                   /\ {responses[i].Path : i \in Sent} = Paths
                   /\ Cardinality(Sent) = Cardinality(Paths)
            /\ listed.done =>
                   /\ listed.err = <<>>
                   /\ {listed.entries[i].Path : i \in 1..Len(listed.entries)} = Paths
                   /\ Len(listed.entries) = Cardinality(Paths)

\* Both walkers ran on a tree with a symbolic link and an excluded regular
\* file below the directory, and the manifest is not empty.
C12_Witness ==
    /\ walked.done
    /\ listed.done
    /\ AllReadable(spriteFs, manifestArgs.dir)
    /\ \E q \in EntriesBelow(spriteFs, manifestArgs.dir) : spriteFs[q].t = "link"
    /\ \E q \in EntriesBelow(spriteFs, manifestArgs.dir) :
           /\ spriteFs[q].t = "file"
           /\ RelTo(manifestArgs.dir, q) \notin DOMAIN walked.manifest
    /\ listed.entries # <<>>

\* The ManifestEntry records of the manifest WalkLocal returned (nil when it
\* returned an error) and of the entries Session.Manifest returned.
LocalRecords ==
    {walked.manifest[p] : p \in DOMAIN walked.manifest}

AgentRecords ==
    {listed.entries[i] : i \in 1..Len(listed.entries)}

NoSuchDirectory ==
    \/ manifestArgs.dir = <<>>
    \/ manifestArgs.dir \notin DOMAIN spriteFs
    \/ spriteFs[manifestArgs.dir].t = "file"

\* C14: to a manifest request whose directory is the empty string, does not
\* exist or is a regular file, the agent sends one response, manifest_done
\* with exists=false, and so neither an entry nor an error; Session.Manifest
\* returns exists=false, no entries and no error.
C14_MissingDirNotExists ==
    NoSuchDirectory =>
        /\ request # NoRequest =>
               /\ Len(responses) = 1
               /\ responses[1].Type = "manifest_done"
               /\ ~responses[1].Exists
        /\ listed.done =>
               /\ listed.err = <<>>
               /\ ~listed.exists
               /\ listed.entries = <<>>

\* Session.Manifest returned for a directory that is a regular file of the
\* tree.
C14_Witness ==
    /\ listed.done
    /\ manifestArgs.dir \in DOMAIN spriteFs
    /\ spriteFs[manifestArgs.dir].t = "file"
    /\ responses[Len(responses)].Type = "manifest_done"

\* C15: WalkLocal returns an error and no manifest whenever its root is the
\* empty string, does not exist or is a regular file.
C15_WalkLocalRefusesNonDir ==
    (walked.done /\ NoSuchDirectory) =>
        /\ walked.err # ""
        /\ walked.manifest = <<>>

-----------------------------------------------------------------------------
(* Claims about the directory of a request and the delete, under SpecAgent *)

\* The directory of the request served last is the empty string, was missing
\* from the tree, or was a regular file.
BadRequestDir ==
    \/ request.Dir = <<>>
    \/ request.Dir \notin DOMAIN fsBefore
    \/ fsBefore[request.Dir].t = "file"

\* The request was answered with one fatal error and the tree is as it was.
RefusedUnchanged ==
    OnlyFatal /\ spriteFs = fsBefore

\* C16 as stated: pack, extract, delete and transfer alike are refused with
\* a fatal error and no change of the tree when the directory is empty,
\* missing or not a directory, and manifest answers exists=false.
C16_BadDirRefusedByAll ==
    BadRequestDir =>
        /\ request.Cmd \in {"pack", "extract", "delete", "transfer"} => RefusedUnchanged
        /\ request.Cmd = "manifest" =>
               /\ Len(responses) = 1
               /\ responses[1].Type = "manifest_done"
               /\ ~responses[1].Exists

\* C16, amended: pack, delete and transfer are refused with a fatal error
\* and no change of the tree when the directory is empty, missing or not a
\* directory; extract is refused so when the directory is empty or a
\* regular file, and is not refused for a missing directory; manifest
\* answers exists=false and no error.
C16_BadDirRefused ==
    BadRequestDir =>
        /\ request.Cmd \in {"pack", "delete", "transfer"} => RefusedUnchanged
        /\ (request.Cmd = "extract"
            /\ (request.Dir = <<>> \/ request.Dir \in DOMAIN fsBefore)) => RefusedUnchanged
        /\ (request.Cmd = "extract" /\ ~OnlyFatal) => request.Dir \in DOMAIN spriteFs
        /\ request.Cmd = "manifest" =>
               /\ Len(responses) = 1
               /\ responses[1].Type = "manifest_done"
               /\ ~responses[1].Exists

\* A pack was refused for a directory that is a regular file, after which
\* the tree is unchanged.
C16_PackRefused ==
    /\ request.Cmd = "pack"
    /\ request.Dir \in DOMAIN fsBefore
    /\ fsBefore[request.Dir].t = "file"
    /\ request.Paths # <<>>
    /\ RefusedUnchanged

\* An extract into a missing directory created it and answered extract_done.
C16_Witness ==
    /\ request.Cmd = "extract"
    /\ request.Dir # <<>>
    /\ request.Dir \notin DOMAIN fsBefore
    /\ responses # <<>>
    /\ responses[Len(responses)].Type = "extract_done"
    /\ request.Dir \in DOMAIN spriteFs

-----------------------------------------------------------------------------
(* Claims about the three directions of a sync, under SpecSync *)

\* The driver is past its diff and about to do, or doing, the work.
WorkingPcs ==
    {"pack", "fswrite", "extract", "delete",
     "pull.pack", "pull.fsread", "pull.unpack", "pull.remove",
     "s2s.transfer", "s2s.extract", "s2s.delete"}

\* The driver has only its sessions left to close, or has returned.
ClosingPcs ==
    {"close", "returned", "pull.close", "pull.returned",
     "s2s.closeDst", "s2s.closeSrc", "s2s.returned"}

\* The uploads and deletes are computed.
SyncDiffed ==
    pc \in WorkingPcs \/ (pc \in ClosingPcs /\ pushErr = <<>>)

\* Both lists are empty, or the run is a dry run.
NothingToDo ==
    (result.Uploads = <<>> /\ result.Deletes = <<>>) \/ pushArgs.dryRun

\* What the tree fs holds at and below dir
SubTree(fs, dir) ==
    [q \in ({dir} \cap DOMAIN fs) \cup EntriesBelow(fs, dir) |-> fs[q]]

\* C17: in a push, a pull and a sprite-to-sprite push, once the diff is
\* computed with both lists empty, or on a dry run, the driver goes on to
\* close its sessions only: it has packed, written, read and unpacked
\* nothing, no agent was sent anything but manifest and quit, no scratch
\* file exists, and the directories on the host, on the sprite and on the
\* source sprite are as they were.
C17_NoWorkNoChange ==
    /\ [](SyncDiffed /\ NothingToDo =>
             /\ pc \in ClosingPcs
             /\ packed = NotPacked
             /\ archive = NoArchive
             /\ unpacked = NotUnpacked
             /\ session.dest = <<>>
             /\ trackedFiles = <<>>
             /\ srcSession.tracked = <<>>
             /\ request.Cmd \in {"manifest", "quit"}
             /\ srcSession.request.Cmd \in {"none", "manifest", "quit"}
             /\ SubTree(spriteFs, pushArgs.remoteDir)
                    = SubTree(fsBefore, pushArgs.remoteDir))
    /\ [][(SyncDiffed' /\ NothingToDo') =>
              /\ hostFs' = hostFs
              /\ SubTree(spriteFs', pushArgs.remoteDir)
                     = SubTree(spriteFs, pushArgs.remoteDir)
              /\ SubTree(srcFs', pushArgs.localDir) = SubTree(srcFs, pushArgs.localDir)]_vars

\* A dry-run pull with files to download has returned without an error.
C17_Witness ==
    /\ pc = "pull.returned"
    /\ pushErr = <<>>
    /\ pushArgs.dryRun
    /\ result.Uploads # <<>>
    /\ hostFs \in PullHostTrees

\* The agent answered the delete request served last with delete_done.
DeleteDone ==
    /\ request.Cmd = "delete"
    /\ responses # <<>>
    /\ responses[Len(responses)].Type = "delete_done"

\* The listed paths of the request, joined to its directory
ListedTargets ==
    {Join(request.Dir, request.Paths[i]) : i \in 1..Len(request.Paths)}

\* The removals of the request that returned an error: one non-fatal error
\* response each.
FailedRemovals ==
    Cardinality({i \in 1..Len(responses) : responses[i].Type = "error"})

\* C18: once delete_done is sent for a delete request, every listed path is
\* absent, every file that is neither a listed path nor under one is as it
\* was, and the count is the number of listed paths whose removal returned
\* no error; an empty list gives the count 0 and no error.
C18_DeleteDone ==
    DeleteDone =>
        /\ \A t \in ListedTargets : Lstat(spriteFs, t).err # ""
        /\ \A q \in DOMAIN fsBefore :
               (fsBefore[q].t = "file" /\ ~\E t \in ListedTargets : AtOrUnder(t, q))
                   => (q \in DOMAIN spriteFs /\ spriteFs[q] = fsBefore[q])
        /\ responses[Len(responses)].Count = Len(request.Paths) - FailedRemovals
        /\ request.Paths = <<>> =>
               (responses[Len(responses)].Count = 0 /\ Len(responses) = 1)

\* The places of spriteToSpritePush
S2SPcs ==
    {"s2s.start", "s2s.dst", "s2s.srcManifest", "s2s.dstManifest", "s2s.transfer",
     "s2s.extract", "s2s.delete", "s2s.closeDst", "s2s.closeSrc", "s2s.returned"}

\* The source session read transfer_done as the answer to its last request.
TransferDone ==
    /\ srcSession.request.Cmd = "transfer"
    /\ srcSession.responses # <<>>
    /\ srcSession.responses[Len(srcSession.responses)].Type = "transfer_done"

\* The tar the source agent packs for the transfer it was asked for
TransferBody ==
    PackTar(srcFs, srcSession.request.Dir, srcSession.request.Paths,
            srcSession.request.Compress).tar

\* The requests of a sprite-to-sprite push come in their order: transfer is
\* asked of the source session where the uploads are due, extract is asked of
\* the destination session only with transfer_done read, and delete follows
\* the extract or, without uploads, the diff.
S2SOrder ==
    /\ (srcSession.request.Cmd # "transfer" /\ srcSession'.request.Cmd = "transfer")
           => (pc = "s2s.transfer" /\ result.Uploads # <<>>
               /\ srcSession'.request.Paths = result.Uploads
               /\ srcSession'.request.URL = FSWriteURL(session'.dest)
               /\ srcSession'.request.Token = Token)
    /\ (pc \in S2SPcs /\ request.Cmd # "extract" /\ request'.Cmd = "extract")
           => (TransferDone /\ UNCHANGED srcSession
               /\ request'.Src = srcSession.responses[Len(srcSession.responses)].Dest
               /\ request'.Src = extractPathParam(srcSession.request.URL))
    /\ (pc \in S2SPcs /\ request.Cmd # "delete" /\ request'.Cmd = "delete")
           => \/ request.Cmd = "extract" /\ result.Uploads # <<>>
                 /\ responses[Len(responses)].Type = "extract_done"
              \/ request.Cmd = "manifest" /\ result.Uploads = <<>>

\* C19: in a sprite-to-sprite push the driver asks the source session for the
\* transfer, asks the destination session to extract the same scratch path
\* only with transfer_done read, and asks the destination session for the
\* delete last; the tar at the scratch path of the destination sprite is the
\* one the source agent packed, and the driver neither packs nor unpacks a
\* tar, holds none, and leaves its own files alone.
C19_TransferThenExtract ==
    /\ [][S2SOrder]_vars
    /\ [](pc \in S2SPcs =>
             /\ packed = NotPacked /\ archive = NoArchive /\ unpacked = NotUnpacked
             /\ hostFs = HostTree
             /\ request.Cmd \notin {"pack", "transfer"}
             /\ srcSession.request.Cmd \notin {"pack", "extract", "delete"}
             /\ pc = "s2s.extract" =>
                    /\ TransferDone
                    /\ session.dest \in DOMAIN spriteFs
                    /\ spriteFs[session.dest].tar = TransferBody)

\* A sprite-to-sprite push went through transfer, extract and delete.
C19_Witness ==
    /\ pc = "s2s.closeDst"
    /\ pushErr = <<>>
    /\ TransferDone
    /\ TransferBody.hdrs # <<>>
    /\ request.Cmd = "delete"
    /\ responses[Len(responses)].Type = "delete_done"
    /\ result.Uploads # <<>>

\* The regular files the walk of the manifest request reaches and is to
\* hash: those the manifest is to hold, below readable directories only.
FilesReached ==
    {q \in EntriesBelow(spriteFs, manifestArgs.dir) :
        /\ RelTo(manifestArgs.dir, q)
               \in ManifestPaths(spriteFs, manifestArgs.dir, manifestArgs.excludes)
        /\ OwnerRead(spriteFs[manifestArgs.dir].mode)
        /\ \A anc \in AncestorsOf(RelTo(manifestArgs.dir, q)) :
               OwnerRead(spriteFs[JoinChild(manifestArgs.dir, anc)].mode)}

\* Those of them that cannot be opened
FilesUnhashable ==
    {q \in FilesReached : ~OwnerRead(spriteFs[q].mode)}

\* The relative paths of the files that can be opened
PathsHashable ==
    {RelTo(manifestArgs.dir, q) : q \in FilesReached \ FilesUnhashable}

\* C20: when a file cannot be opened or hashed during a manifest request, the
\* agent sends for each such file one error response that is not fatal and
\* no entry, sends the entries of the remaining files and ends with
\* manifest_done; Session.Manifest returns no error and the remaining
\* entries.
C20_UnhashableFileSkipped ==
    LET Errors == {i \in 1..Len(responses) : responses[i].Type = "error"}
        Sent == {i \in 1..Len(responses) : responses[i].Type = "entry"}
    IN  (request # NoRequest /\ FilesUnhashable # {}) =>
            /\ \A i \in Errors : ~responses[i].Fatal
            /\ Cardinality({i \in Errors : responses[i].Message = <<"hash %s: %s">>})
                   = Cardinality(FilesUnhashable)
            /\ {responses[i].Path : i \in Sent} = PathsHashable
            /\ Cardinality(Sent) = Cardinality(PathsHashable)
            /\ responses[Len(responses)].Type = "manifest_done"
            /\ responses[Len(responses)].Exists
            /\ responses[Len(responses)].Count = Cardinality(PathsHashable)
            /\ listed.done =>
                   /\ listed.err = <<>>
                   /\ listed.exists
                   /\ {listed.entries[i].Path : i \in 1..Len(listed.entries)}
                          = PathsHashable
                   /\ Len(listed.entries) = Cardinality(PathsHashable)

\* Session.Manifest returned the entry of the readable file of a directory
\* that holds an unreadable file too.
C20_Witness ==
    /\ listed.done
    /\ FilesUnhashable # {}
    /\ listed.err = <<>>
    /\ listed.entries # <<>>
    /\ \E i \in 1..Len(responses) : responses[i].Type = "error"

-----------------------------------------------------------------------------
(* Claims about the answers of the agent and the reads of the session,      *)
(* under SpecAgent                                                          *)

\* The responses that end a request: the terminal response of its command,
\* or a fatal error
Terminals ==
    {i \in 1..Len(responses) :
        \/ responses[i].Type = DoneType(request.Cmd)
        \/ responses[i].Type = "error" /\ responses[i].Fatal}

\* C21: the agent serves one request line at a time, and every request line
\* other than quit is answered by exactly one terminal message, the terminal
\* response of its command or one fatal error, which is the last response of
\* the request.
C21_OneTerminalAnswer ==
    /\ [][request' # request => (request = NoRequest \/ request' = NoRequest)]_vars
    /\ []((request # NoRequest /\ request.Cmd # "quit") =>
              /\ Cardinality(Terminals) = 1
              /\ Terminals = {Len(responses)})

\* What the read loop of the Session method of the request served last does
\* with its responses
LastRead ==
    ReadUntilDone(responses, 1, request.Cmd)

\* C22: when the Session method of a request returns, with or without an
\* error, it has read every response the agent sent for the request, so the
\* next request starts at its own first response; the entry responses of a
\* manifest all precede its manifest_done, whose count is their number.
C22_NothingLeftOver ==
    /\ (request # NoRequest /\ LastRead.returns) => LastRead.last = Len(responses)
    /\ \A i \in 1..Len(responses) :
           responses[i].Type = "manifest_done" =>
               /\ request.Cmd = "manifest"
               /\ i = Len(responses)
               /\ responses[i].Count = EntryCount(responses)

\* A manifest with entries was read to its end, and so was a request that a
\* fatal error ended.
C22_Witness ==
    /\ request.Cmd = "manifest"
    /\ LastRead.returns
    /\ LastRead.ok
    /\ EntryCount(responses) >= 2
    /\ fatalRun >= 1

-----------------------------------------------------------------------------
(* Claims about the pipe of a transfer, under SpecTransfer *)

\* PackTar returned an error.
PackFailed ==
    packer.pc = "done" /\ packer.err

\* C29: in a transfer the body of the PUT ends with the end of the stream
\* only when PackTar returned without an error; when PackTar returns an error
\* the body does not end that way and, whatever the server answers, the agent
\* never sends transfer_done and does send a fatal error.
C29_EndOfStreamOnlyAfterPack ==
    /\ [](upload.body = "eof" => (packer.pc = "done" /\ ~packer.err))
    /\ [](handler.sent = "transfer_done" => (packer.pc = "done" /\ ~packer.err))
    /\ [](PackFailed => (upload.body # "eof" /\ handler.sent # "transfer_done"))
    /\ (PackFailed ~> (handler.sent \in TransferFatals))

\* The server answered below 400 before the body was read to its end, the
\* pack failed after that, the body ended with the error and the agent sent
\* the fatal error of the pack.
C29_Witness ==
    /\ PackFailed
    /\ upload.answer = "ok"
    /\ upload.body = "err"
    /\ handler.sent = "pack: %s"

\* The upload failed: the request returned an error, or the status is 400 or
\* above.
UploadFailed ==
    handler.sent \in {"transfer: %s", "transfer http %d"}

\* C30: in a transfer a failure of the upload side, a request error or a
\* status of 400 or above, aborts the packing side: the request ends with a
\* fatal error and the pack goroutine terminates, it does not stay in a write
\* to the pipe.
C30_UploadFailureEndsPack ==
    /\ [](upload.answer \in {"failed", "bad"} => handler.sent # "transfer_done")
    /\ (upload.answer \in {"failed", "bad"} ~> UploadFailed)
    /\ (UploadFailed ~> packer.pc = "done")

-----------------------------------------------------------------------------
(* Claims about the session over the WebSocket, checked under SpecConn *)

\* The call of caller i is past s.mu.Lock() and has not returned.
Holding(i) == calls[i].pc \in {"send", "read", "quit", "wait", "conn", "rm"}

\* The call of caller i has written its request line and has not returned.
InFlight(i) == calls[i].pc \in {"read", "wait", "conn", "rm"}

\* The call of caller i writes its request line in this step.
Sends(i) == calls[i].pc \in {"send", "quit"} /\ calls'[i].pc # calls[i].pc

\* C23: calls of Manifest, Pack, Extract, Delete, Transfer and Close on one
\* session exclude one another: no two of them are past the lock at one
\* time, a request line is written only while no other call is between its
\* own line and its return, and the agent never has more than one line of
\* the session to read.
C23_CallsExcludeEachOther ==
    /\ [](\A i, j \in Callers : Holding(i) /\ Holding(j) => i = j)
    /\ [](Len(toAgent) <= 1)
    /\ [][\A i, j \in Callers : Sends(i) /\ i # j => ~InFlight(j) /\ ~Sends(j)]_vars

\* A Close waits for the mutex while a Manifest reads its responses.
C23_Witness ==
    \E i, j \in Callers :
        /\ calls[i] = [pc |-> "read", cmd |-> "manifest", res |-> ""]
        /\ calls[j] = [pc |-> "lock", cmd |-> "close", res |-> ""]
        /\ mu = i

\* Some call is in its read loop.
Reading == \E i \in Callers : calls[i].pc = "read"

\* The pump waits in stdoutW.Write or stderrW.Write.
PumpWrites == wsc.pump \in {"outWrite", "errWrite"}

\* A response line is on its way to the pump.
LinePending ==
    \E k \in 1..Len(wire) :
        wire[k] \notin {"info", "err", "errLong", "exit3", "exitText", "fin"}

\* C24: while a call reads the responses of its request, the read pump
\* never waits forever in a write to the stdout or the stderr pipe, and a
\* response line the server has sent reaches the scanner (or the call has
\* returned, or the connection has ended), whatever stderr frames come
\* between.
C24_PumpNeverBlocks ==
    /\ (Reading /\ PumpWrites) ~> ~PumpWrites
    /\ (Reading /\ LinePending) ~> (~LinePending \/ ~Reading \/ wsc.pump = "done")

\* The pump has read an exit notification: exitCh was closed at least once.
ExitSeen == wsc.exitCode # -1

\* C25: whatever exit notifications arrive and in whatever order, exitCh is
\* never closed twice, it is closed once an exit notification was read, and
\* the notification, binary or text, has recorded the exit code of the
\* process.
C25_DoneFiresOnce ==
    /\ wsc.closes <= 1
    /\ ExitSeen => wsc.closes = 1 /\ wsc.exitCode = agentProc.code

\* The context of the session is cancelled, or the WebSocket has closed
\* under it.
TornDown == wsc.cancelled \/ ~agentProc.up

\* C26: when the context is cancelled or the WebSocket closes while a call
\* waits for a response, the call returns an error; and a call made on the
\* session after its stdout stream has ended with an error returns an error.
C26_TornSessionFails ==
    /\ \A i \in Callers :
          (calls[i].pc = "read" /\ calls[i].cmd # "close" /\ TornDown)
              ~> (calls[i].pc = "done" /\ calls[i].res = "err")
    /\ \A i \in Callers :
          (calls[i].pc \in {"lock", "send"} /\ calls[i].cmd # "close"
               /\ wsc.stdout = "err")
              ~> (calls[i].pc = "done" /\ calls[i].res = "err")

\* The steps Session.Close has taken, the way it left the select dropped.
CloseSteps == [k \in 1..Len(sess.steps) |->
                  IF sess.steps[k] \in {"done", "timeout"} THEN "wait" ELSE sess.steps[k]]

\* The agent has exited with status 0, as it does at quit.
ExitedNormally ==
    agentProc.agent /\ agentProc.pc = "exited" /\ agentProc.code = 0

\* C27: a call of Session.Close returns; Close sends quit, waits, closes the
\* channel and removes the binary in that order, and leaves the wait by
\* done only after an exit was seen; and a Close that closes the channel of
\* an agent that has exited normally returns no error.
C27_CloseAlwaysReturns ==
    /\ \A i \in Callers :
          (calls[i].pc = "lock" /\ calls[i].cmd = "close") ~> (calls[i].pc = "done")
    /\ [](IsPrefix(CloseSteps, <<"quit", "wait", "close", "rm",
                                 "quit", "wait", "close", "rm">>))
    /\ [][\A i \in Callers :
              calls[i].pc = "conn" /\ calls'[i].pc = "rm" /\ ExitedNormally
                  => calls'[i].res = "ok"]_vars

\* C28: the agent writes its ready line before it takes a request, and
\* ready is the first line it writes; OpenSession returns a session only
\* when the first line it read was ready, and an error, with the channel
\* closed, when the read failed, the stream had ended or the line was
\* anything else.
C28_ReadyFirst ==
    /\ [][/\ agentProc.agent /\ toAgent' # toAgent /\ Len(toAgent') < Len(toAgent)
              => agentProc.readySent
          /\ agentProc.agent /\ agentProc.pc = "start" /\ Len(wire') > Len(wire)
              => wire' = Append(wire, "ready")]_vars
    /\ [](sess.pc = "ready" => sess.first = "ready" /\ ~sess.err)
    /\ [](sess.pc = "failed" =>
              /\ sess.first \in {"eof", "err", "garbage", "fatal"}
              /\ sess.err /\ sess.closed /\ wsc.cancelled)
    /\ [](sess.first # "" /\ sess.first # "ready" => sess.pc = "failed")

\* OpenSession has refused a first line that is a response but not ready.
C28_Witness ==
    /\ sess.pc = "failed"
    /\ sess.first = "fatal"
    /\ sess.closed

-----------------------------------------------------------------------------
(* Claims about the scratch files of the agent, checked under SpecAgent *)

\* The last request was a pack that created or changed a file.
PackCreated == request.Cmd = "pack" /\ Changed # {}

\* The last request was a transfer that wrote its archive to the peer.
TransferCreated ==
    request.Cmd = "transfer" /\ ReadUntilDone(responses, 1, "transfer").ok

\* C31: the dest of a pack and of a transfer that created a scratch file is
\* in trackedFiles; once the agent has shut down, by quit or at the end of
\* its input, no path of trackedFiles exists; and after a successful
\* extract its src does not exist.
C31_ScratchTrackedAndRemoved ==
    /\ PackCreated => request.Dest \in Range(trackedFiles)
    /\ TransferCreated => extractPathParam(request.URL) \in Range(trackedFiles)
    /\ ~running => \A p \in Range(trackedFiles) : Lstat(spriteFs, p).err # ""
    /\ (request.Cmd = "extract" /\ ReadUntilDone(responses, 1, "extract").ok)
       => Lstat(spriteFs, request.Src).err # ""

-----------------------------------------------------------------------------
(* Claims about the scratch files and the order of a sync, under SpecSync *)

\* The driver has returned and the agents of the sync have shut down.
SyncReturned == pc \in {"returned", "pull.returned", "s2s.returned"}

\* The files under /tmp of the sprite that were not there before the sync
ScratchLeft ==
    {q \in DOMAIN spriteFs \ DOMAIN fsBefore : HasPrefix(q, TmpDir \o Slash)}

\* C32: the scratch tar of a sync, once created, is in the scratch set of an
\* agent of the sync; and when the driver has returned and the agents have
\* shut down, no scratch file of the sync is left on the sprite, whatever
\* pack, upload and extract did.
C32_ScratchTarsRemoved ==
    /\ (session.dest # <<>> /\ Lstat(spriteFs, session.dest).err = "")
       => session.dest \in Range(trackedFiles) \cup Range(srcSession.tracked)
    /\ SyncReturned => ScratchLeft = {}

\* The last response the session read is of this type.
LastResponse(type) ==
    responses # <<>> /\ responses[Len(responses)].Type = type

\* The steps of a push come in their order: the pack where uploads are due,
\* the FSWrite after a pack without error, the extract of the scratch file
\* that holds the packed tar, the delete after extract_done or, without
\* uploads, after the diff; and nothing but the close after an error.
PushOrder ==
    /\ (pc = "pack" /\ pc' # pc)
           => result.Uploads # <<>> /\ ~packed.done /\ request.Cmd = "manifest"
    /\ (pc = "fswrite" /\ pc' # pc)
           => packed.done /\ packed.err = "" /\ request.Cmd = "manifest"
    /\ (pc \notin S2SPcs /\ request.Cmd # "extract" /\ request'.Cmd = "extract")
           => /\ pc = "extract" /\ packed.done /\ packed.err = ""
              /\ request.Cmd = "manifest"
              /\ request'.Src = session.dest
              /\ session.dest \in DOMAIN spriteFs
              /\ spriteFs[session.dest].tar = packed.tar
    /\ (pc \notin S2SPcs /\ request.Cmd # "delete" /\ request'.Cmd = "delete")
           => \/ request.Cmd = "extract" /\ LastResponse("extract_done")
                 /\ result.Uploads # <<>>
              \/ request.Cmd = "manifest" /\ result.Uploads = <<>> /\ ~packed.done

\* The steps of a pull come in their order: the pack by the agent where
\* downloads are due, the FSRead of the dest of pack_done, the unpack of what
\* was read, the local delete after an unpack without error or, without
\* downloads, after the diff.
PullOrder ==
    /\ (request.Cmd # "pack" /\ request'.Cmd = "pack")
           => pc = "pull.pack" /\ result.Uploads # <<>> /\ request.Cmd = "manifest"
              /\ archive = NoArchive /\ unpacked = NotUnpacked
    /\ (pc = "pull.fsread" /\ pc' # pc)
           => request.Cmd = "pack" /\ LastResponse("pack_done")
              /\ session.dest = responses[Len(responses)].Dest
              /\ unpacked = NotUnpacked
    /\ (pc = "pull.unpack" /\ pc' # pc)
           => archive.set /\ request.Cmd = "pack" /\ ~unpacked.done
    /\ (pc = "pull.remove" /\ pc' # pc)
           => \/ unpacked.done /\ unpacked.err = "" /\ result.Uploads # <<>>
              \/ unpacked = NotUnpacked /\ result.Uploads = <<>>
                 /\ request.Cmd = "manifest"

\* After an error the driver only closes its session.
StopOnFailure ==
    (pc \notin S2SPcs /\ pushErr # <<>>)
        => /\ pc \in {"close", "pull.close", "returned", "pull.returned"}
           /\ request' = request \/ request'.Cmd = "quit"
           /\ hostFs' = hostFs /\ packed' = packed /\ archive' = archive
           /\ unpacked' = unpacked

\* C33: a push packs, writes the tar, asks for the extract and asks for the
\* delete in that order, each after the one before returned without error;
\* a pull asks for the pack, reads the tar, unpacks it and deletes locally
\* in that order; and after a failed step nothing but the close follows, so
\* no delete is asked for after a failed extract.
C33_StepsInOrder ==
    [][PushOrder /\ PullOrder /\ StopOnFailure]_vars

\* A push with deletes due whose extract failed is about to close.
C33_Witness ==
    /\ pc = "close"
    /\ request.Cmd = "extract"
    /\ LastResponse("error")
    /\ pushErr # <<>>
    /\ result.Deletes # <<>>

(* Claims about the worker pool of WalkLocal, checked under SpecWalk *)

\* No goroutine of the walk waits at a channel that is full.
NoSendBlocks ==
    /\ (walker.pc = "send" /\ walker.sent < Len(jobs)) => Len(jobCh.buf) < jobCh.cap
    /\ \A w \in DOMAIN hashers :
          hashers[w].pc = "send" => Len(resultCh.buf) < resultCh.cap

\* What WalkLocal returns is what hashing the queued files one by one gives:
\* the same error or none, and the same map.
ReturnsAsInOrder(ret, w) ==
    /\ (ret.err = "") = (w.err = "")
    /\ ret.manifest = w.manifest

\* C34: whatever the count of files and workers and the order of their
\* steps, no goroutine of WalkLocal waits at a full channel and a call
\* that started its workers returns; when it returns every queued file was hashed exactly once, the
\* map is the one that hashing the files in order gives, with one entry per
\* queued file when no hash failed; and a second walk of the same tree
\* returns the same.
C34_WalkLocalPool ==
    /\ []NoSendBlocks
    /\ [](walker.pc \in {"collect", "returned"} =>
             \A i \in 1..Len(jobs) : hashes[i] = 1)
    /\ [](walker.pc = "returned" =>
             /\ ReturnsAsInOrder(walker.ret,
                                 WalkLocal(hostFs, walkArgs.dir, walkArgs.excludes))
             /\ walker.ret.err = "" =>
                   /\ DOMAIN walker.ret.manifest = {jobs[i].relPath : i \in 1..Len(jobs)}
                   /\ Cardinality(DOMAIN walker.ret.manifest) = Len(jobs)
             /\ walker.round = 2 =>
                   /\ walker.ret.manifest = walker.first.manifest
                   /\ (walker.ret.err = "") = (walker.first.err = ""))
    /\ (walker.pc \in {"spawn", "send", "wait", "collect"}) ~> (walker.pc = "returned")

\* A second walk with three workers has returned a map of three entries.
C34_Witness ==
    /\ walker.pc = "returned"
    /\ walker.round = 2
    /\ Len(hashers) = 3
    /\ walker.ret.err = ""
    /\ Cardinality(DOMAIN walker.ret.manifest) = 3

(* Claims about failed manifests, checked under SpecSync *)

\* The driver has stopped with an error before the diff: nothing was packed,
\* read or unpacked and the remote tree is as it was.
StoppedBeforeDiff ==
    /\ pushErr # <<>>
    /\ pc \in ClosingPcs \cup {"returned", "pull.returned"}
    /\ result = [Uploads |-> <<>>, Deletes |-> <<>>]
    /\ packed = NotPacked
    /\ archive = NoArchive
    /\ unpacked = NotUnpacked
    /\ request.Cmd \in {"manifest", "quit"}
    /\ SubTree(spriteFs, pushArgs.remoteDir) = SubTree(fsBefore, pushArgs.remoteDir)

\* A WalkLocal that could not hash a file returned no manifest and stopped
\* the driver.
FailedWalkStops ==
    (walked.done /\ walked.err = "hash") => walked.manifest = <<>> /\ StoppedBeforeDiff

\* A Session.Manifest that failed returned no entries and stopped the driver.
FailedManifestStops ==
    (listed.done /\ listed.err # <<>>) => listed.entries = <<>> /\ StoppedBeforeDiff

\* C35: when hashing a file fails WalkLocal returns an error and no
\* manifest, when the agent reports a fatal error or the stream of responses
\* breaks Session.Manifest returns an error and no entries, and in both
\* cases the push or pull stops without a diff and without a change to
\* either tree.
C35_FailedManifestStops ==
    FailedWalkStops /\ FailedManifestStops

(* Claims about the frames of the channel, checked under SpecFrames *)

\* The message is an exit: the 0x03 frame or the text message exit.
IsExit(f) ==
    \/ f.typ = "text" /\ f.msg = "exit"
    \/ f.typ = "binary" /\ f.data # <<>> /\ Head(f.data) = PrefixExit

\* The messages received before the first exit
RECURSIVE BeforeExit(_)
BeforeExit(fs) ==
    IF fs = <<>> \/ IsExit(Head(fs)) THEN <<>>
    ELSE <<Head(fs)>> \o BeforeExit(Tail(fs))

\* The payloads of the binary messages with this prefix, one after another
RECURSIVE Payloads(_, _)
Payloads(fs, prefix) ==
    IF fs = <<>> THEN <<>>
    ELSE IF Head(fs).typ = "binary" /\ Head(fs).data # <<>>
            /\ Head(Head(fs).data) = prefix
         THEN Tail(Head(fs).data) \o Payloads(Tail(fs), prefix)
    ELSE Payloads(Tail(fs), prefix)

\* The bytes a reader of the pipe has read or can read
Readable(bytes, writing) ==
    bytes \o (IF readPump.pc = writing THEN readPump.held ELSE <<>>)

\* Every call wrote one binary message: 0x00 and the data, or 0x04.
StdinFramed ==
    \A i \in 1..Len(wsOut) :
        wsOut[i].sent = <<Binary(IF wsOut[i].call = "WriteStdin"
                                 THEN <<PrefixStdin>> \o wsOut[i].arg
                                 ELSE <<PrefixStdinEOF>>)>>

\* C36: the bytes readable from Stdout() are the payloads of the 0x01
\* frames received before the exit, in the order of their arrival, those
\* readable from Stderr() the payloads of the 0x02 frames; no other message
\* adds a byte; WriteStdin sends one binary message of 0x00 and the data and
\* CloseStdin one of the single byte 0x04.
C36_StreamsCarryPayloads ==
    /\ Readable(stdoutBytes, "stdoutW") = Payloads(BeforeExit(wsRead), PrefixStdout)
    /\ Readable(stderrBytes, "stderrW") = Payloads(BeforeExit(wsRead), PrefixStderr)
    /\ StdinFramed

(* Claims about the order of the headers of PackTar, under SpecTar *)

\* Every listed path passes the two checks of PackTar.
ValidList ==
    \A i \in 1..Len(packArgs.filePaths) :
        PackGate(packArgs.dir, packArgs.filePaths[i]) = ""

\* The directories above the file at the path, the path taken as cleaned
AncestorDirs(p) ==
    LET Above(segs) == {JoinSegs(SubSeq(segs, 1, i)) : i \in 1..(Len(segs) - 1)}
    IN  Above(Split(Clean(p)))

\* The directories above the listed files
ListedAncestors ==
    UNION {AncestorDirs(packArgs.filePaths[i]) : i \in 1..Len(packArgs.filePaths)}

\* The headers of this type among those PackTar wrote, in order
HeadersOf(typeflag) ==
    SelectSeq(PackedHeaders, LAMBDA h : h.Typeflag = typeflag)

\* C37: for a list of valid paths PackTar writes every directory header
\* before any file header; the directory headers are one for each directory
\* above a listed file and none else, each with mode 0755 and the zero time;
\* the file headers are those of the listed paths in the order of the list,
\* all of them when PackTar returns no error; the count is then the length
\* of the list; and an empty list gives an empty archive and the count 0.
C37_DirsThenFilesInOrder ==
    (packed.done /\ ValidList) =>
        /\ PackedHeaders = HeadersOf("dir") \o HeadersOf("reg")
        /\ \A i \in 1..Len(HeadersOf("dir")) :
              /\ HeadersOf("dir")[i].Mode = DirPerm
              /\ HeadersOf("dir")[i].ModTime = 0
              /\ HeadersOf("dir")[i].Name = DirHeaderPath(HeadersOf("dir")[i].Name) \o Slash
              /\ DirHeaderPath(HeadersOf("dir")[i].Name) \in ListedAncestors
        /\ \A d \in ListedAncestors :
              Cardinality({i \in 1..Len(HeadersOf("dir")) :
                              HeadersOf("dir")[i].Name = d \o Slash}) = 1
        /\ IsPrefix([i \in 1..Len(HeadersOf("reg")) |-> HeadersOf("reg")[i].Name],
                    packArgs.filePaths)
        /\ packed.err = "" =>
              /\ Len(HeadersOf("reg")) = Len(packArgs.filePaths)
              /\ packed.count = Len(packArgs.filePaths)
        /\ packArgs.filePaths = <<>> =>
              /\ packed.err = ""
              /\ packed.count = 0
              /\ packed.tar = Stream("tar", packArgs.compress, <<>>)

\* PackTar packed a file of the root and then a file of a directory.
C37_Witness ==
    /\ packed.done
    /\ packed.err = ""
    /\ ValidList
    /\ Len(packArgs.filePaths) = 2
    /\ AncestorDirs(packArgs.filePaths[1]) = {}
    /\ AncestorDirs(packArgs.filePaths[2]) # {}

-----------------------------------------------------------------------------
(* Claims about the exclude patterns, checked under SpecMatch *)

\* The pattern after one trailing slash is taken off
Stripped(pattern) ==
    IF pattern # <<>> /\ pattern[Len(pattern)] = "/"
    THEN SubSeq(pattern, 1, Len(pattern) - 1)
    ELSE pattern

\* A pattern with no slash and no ** once one trailing slash is taken off
IsBare(pattern) ==
    /\ \A i \in 1..Len(Stripped(pattern)) : Stripped(pattern)[i] # "/"
    /\ \A i \in 1..(Len(Stripped(pattern)) - 1) :
           ~(Stripped(pattern)[i] = "*" /\ Stripped(pattern)[i + 1] = "*")

\* A name of literal bytes
IsName(pattern) ==
    /\ pattern # <<>>
    /\ \A i \in 1..Len(pattern) : pattern[i] \notin {"*", "?", "/"}

\* The pattern glob-matches one single segment of the path.
MatchesSegment(pattern, relPath) ==
    \E seg \in Range(Split(relPath)) : Match(Stripped(pattern), seg)

\* The path is the directory of that name at some depth, or lies under it.
HasSegment(name, relPath) ==
    \E i \in 1..Len(Split(relPath)) : Split(relPath)[i] = name

\* C38: a path matches an exclude list exactly if one of the patterns matches
\* it; a pattern with no slash and no ** (one trailing slash taken off) matches
\* a path exactly if it glob-matches one single segment of the path, so that a
\* bare directory name excludes the directory at any depth and all under it;
\* the empty list matches nothing.
C38_ExcludeListMatches ==
    matched.called =>
        /\ matched.result =
               (\E i \in 1..Len(matcher.patterns) :
                    matchPattern(matcher.patterns[i], matched.relPath))
        /\ (\A i \in 1..Len(matcher.patterns) : IsBare(matcher.patterns[i])) =>
               matched.result =
                   (\E i \in 1..Len(matcher.patterns) :
                        MatchesSegment(matcher.patterns[i], matched.relPath))
        /\ \A i \in 1..Len(matcher.patterns) :
               /\ IsName(Stripped(matcher.patterns[i]))
               /\ HasSegment(Stripped(matcher.patterns[i]), matched.relPath)
               => matched.result
        /\ matcher.patterns = <<>> => ~matched.result

\* The list of d/ alone was asked about e/d/a, a file under a directory d
\* below the root, and matched.
C38_Witness ==
    /\ matched.called
    /\ matcher.patterns = << <<"d", "/">> >>
    /\ matched.relPath = <<"e", "/", "d", "/", "a">>
    /\ matched.result

-----------------------------------------------------------------------------
(* Claims about what a sync with --delete removes, checked under SpecSync *)

\* A regular file that no exclude pattern matches is at relPath under dir.
SourceHasFile(fs, dir, excludes, relPath) ==
    /\ Join(dir, relPath) \in DOMAIN fs
    /\ fs[Join(dir, relPath)].t = "file"
    /\ ~ExcludeMatch(excludes, relPath)

\* The paths under dir that are in the tree before the step and not after
RemovedUnder(before, after, dir) ==
    {TrimPrefix(n, dir \o Slash) :
         n \in {m \in DOMAIN before \ DOMAIN after : HasPrefix(m, dir \o Slash)}}

\* The deleting step of a push removes from the sprite only what the host
\* has no file for.
PushDeletesOnlyAbsent ==
    PushDelete =>
        \A p \in RemovedUnder(spriteFs, spriteFs', pushArgs.remoteDir) :
            ~SourceHasFile(hostFs, pushArgs.localDir, pushArgs.excludes, p)

\* The deleting step of a pull removes from the host only what the sprite
\* has no file for.
PullDeletesOnlyAbsent ==
    PullRemove =>
        \A p \in RemovedUnder(hostFs, hostFs', pushArgs.localDir) :
            ~SourceHasFile(spriteFs, pushArgs.remoteDir, pushArgs.excludes, p)

\* C39: with delete enabled, a push or a pull removes a path from the target
\* tree only if the source tree has no regular file at that path that is not
\* excluded, also when files of the source cannot be hashed or the source
\* root is not a directory.
C39_DeletesOnlyAbsent ==
    [][PushDeletesOnlyAbsent /\ PullDeletesOnlyAbsent]_vars

-----------------------------------------------------------------------------
(* Claims about the read pump after Close, checked under SpecConn *)

\* WSConn.Close has returned.
ConnClosed == sess.closed

\* readPump has returned and its deferred calls have closed both pipes.
PumpEnded == wsc.pump = "done" /\ wsc.stdout # "open"

\* C40: after WSConn.Close, and so after Session.Close, has returned, the
\* read pump ends and both pipes are closed, also when the pump holds bytes
\* of stdout or stderr that nobody will read.
C40_PumpEndsAfterClose ==
    ConnClosed ~> PumpEnded

=============================================================================
